---- MODULE Spec2Model ----
(***************************************************************************)
(* Swarm and Snack: the Node server (src/Server/server.js).                *)
(*                                                                         *)
(* The registry `rooms`, the per-socket `connectionInfo`, the message      *)
(* handlers of wss.on("connection") and the setInterval tick callback are  *)
(* modelled as one state machine.  Every handler is one action.            *)
(*                                                                         *)
(* Numbers.  Positions are kept in fixed point, Scale parts of one arena   *)
(* unit; velocities in the same parts per second; unit vectors in Unit     *)
(* parts of one.  Time is wall-clock milliseconds.  Products that the      *)
(* source forms in floating point are formed here in integers and divided  *)
(* with truncation toward zero (Div), so axis-aligned motion is exact and  *)
(* oblique pushes are exact up to a part: the length a vector is divided   *)
(* by is formed to a thousandth of a part for short vectors (Fineness).    *)
(***************************************************************************)
EXTENDS Integers, Sequences, FiniteSets, TLC

\* ------------------------------------------------------------------ GAME
\* The GAME table of server.js, lines 19-30 (arena units, units per second).
ArenaWidth == 960
ArenaHeight == 640
LeaderSpeed == 160
LeaderRadius == 18
UnderlingSpeed == 120
UnderlingRadius == 12
MinUnderlings == 3
MaxUnderlings == 5
RoomTimeoutMs == 10 * 60 * 1000
\* The clamp of the tick's elapsed time, `if (deltaSeconds > 0.5)`, in ms.
MaxDeltaMs == 500
\* Largest spawn offset, randomFloat(-60, 60).
SpawnSpread == 60
\* The push of a leader that eats an underling / of two leaders that touch.
EatPush == 6
LeaderPush == 4

\* Fixed-point resolutions: parts of an arena unit, parts of a unit vector.
Scale == 10 * 10
Unit == 10 * 10 * 10

\* --------------------------------------------------------------- bounds
\* Clock advances of MaxDeltaMs the model takes, and idle periods longer
\* than the room timeout.
MaxSteps == 4
MaxIdles == 1
\* Id groups of crypto.randomUUID() the messages may take.
MaxUuid == 6
LobbyUuid == 3
LobbySteps == 1
RoomsUuid == 5
RoomsSteps == 1
ArenaUuid == 4
ArenaSteps == 5
MaxElapses == 1
DuelUuid == 4
DuelSteps == 3

\* ------------------------------------------------------------ the world
\* Connection ids (crypto.randomUUID() at "connection") and room codes
\* (generateRoomId).
Conns == {"c1", "c2", "c3"}
RoomIds == {"AAAAAA", "BBBBBB"}
Null == "null"

\* What a client can put in message.roomId: a code in either letter case,
\* a code of no room, nothing at all, or a JSON value that is no string.
Absent == "absent"
NonString == "nonstring"
JoinInputs == {"AAAAAA", "bbbbbb", "ZZZZZZ", Absent, NonString}
\* What a client can put in message.direction.
MoveInputs == {Absent, "Left", "right", NonString}
\* What a client can put in message.displayName: nothing, or a truthy JSON
\* value that is no string (a string is stored as it is or replaced by the
\* team colour, and no handler reads it again).
DisplayNames == {Absent, NonString}
\* What a client can put in message.ts of a ping: nothing, or the number
\* PingTs.
PingTs == 7
PingInputs == {Absent, "ts"}
\* Frames with no case of the handler's switch: the JSON text `null`, a text
\* that is no JSON, a message of an unknown type and the JSON number 5.
RawInputs == {"null", "garbage", "unknown", "5"}

\* String.prototype.toUpperCase / toLowerCase on the strings above.
toUpperCase(s) ==
  CASE s = "bbbbbb" -> "BBBBBB"
    [] s = "aaaaaa" -> "AAAAAA"
    [] OTHER -> s

toLowerCase(s) ==
  CASE s = "Left" -> "left"
    [] s = "LEFT" -> "left"
    [] s = "Right" -> "right"
    [] s = "UP" -> "up"
    [] s = "Up" -> "up"
    [] s = "DOWN" -> "down"
    [] s = "Down" -> "down"
    [] s = "NONE" -> "none"
    [] OTHER -> s

\* ---------------------------------------------------------- arithmetic
Abs(a) == IF a < 0 THEN -a ELSE a

\* Division truncating toward zero (the sign symmetry of a float quotient).
Div(a, b) == IF a >= 0 THEN a \div b ELSE -((-a) \div b)

RECURSIVE SqrtSearch(_, _, _)
SqrtSearch(n, lo, hi) ==
  IF lo >= hi THEN lo
  ELSE LET mid == (lo + hi + 1) \div 2
       IN IF mid * mid <= n THEN SqrtSearch(n, mid, hi)
          ELSE SqrtSearch(n, lo, mid - 1)

\* Math.sqrt, to the part below.
Sqrt(n) == SqrtSearch(n, 0, 2 * (LeaderRadius + LeaderRadius) * Scale)

\* A root whose square the model's 32-bit integers hold.
MaxRoot == 2^15 + 2^13 + 2^12

\* ------------------------------------------------------------- vectors
Vec(x, y) == [x |-> x, y |-> y]

vectorLengthSquared(v) == v.x * v.x + v.y * v.y

vectorLength(v) == Sqrt(vectorLengthSquared(v))

\* The resolution, in fractions of a part, at which the length of a vector
\* with the squared length n is formed: the finest of 1/1000, 1/100, 1/10
\* and 1 part whose square the arithmetic holds.
Fineness(n) ==
  IF n <= (MaxRoot * MaxRoot) \div (Unit * Unit) THEN Unit
  ELSE IF n <= (MaxRoot * MaxRoot) \div (Scale * Scale) THEN Scale
  ELSE IF n <= (MaxRoot * MaxRoot) \div Scale THEN Scale \div 10
  ELSE 1

\* v divided by its length, the length given in parts over `fine`: the zero
\* vector when the length is below 0.0001.
Scaled(v, length, fine) ==
  IF length = 0 THEN Vec(0, 0)
  ELSE Vec(Div(v.x * Unit * fine, length), Div(v.y * Unit * fine, length))

\* The unit vector of v with its length formed at the resolution `fine`.
Normalized(v, fine) ==
  Scaled(v, SqrtSearch(vectorLengthSquared(v) * fine * fine, 0, MaxRoot), fine)

\* normalize: a displacement in parts of a unit to a unit vector in parts
\* of one.
normalize(v) == Normalized(v, Fineness(vectorLengthSquared(v)))

\* directionToVector: the unit vector of a pending direction.  A value that
\* is no string has no toLowerCase: the call throws (see Throws).
directionToVector(direction) ==
  LET d == toLowerCase(IF direction = Absent THEN "none" ELSE direction)
  IN CASE d = "up" -> Vec(0, -Unit)
       [] d = "down" -> Vec(0, Unit)
       [] d = "left" -> Vec(-Unit, 0)
       [] d = "right" -> Vec(Unit, 0)
       [] OTHER -> Vec(0, 0)

\* Whether directionToVector(direction) throws a TypeError.
Throws(direction) == direction = NonString

\* Whether createPlayer throws a TypeError: `displayName && displayName.trim()`
\* calls trim on a truthy value that has none.
TrimThrows(displayName) == displayName = NonString

\* Whether `message.type` throws a TypeError: JSON.parse has returned null.
TypeThrows(raw) == raw = "null"

\* ------------------------------------------------------------ randomness
\* randomUnitVector(): the directions the model draws (parts of one).
UnitVectors ==
  {Vec(Unit, 0), Vec(-Unit, 0), Vec(0, Unit), Vec(0, -Unit), Vec(600, 800)}

\* One underling's draws in initializePlayerEntities: the two offsets of
\* randomFloat(-60, 60), in arena units, and the unit vector.
Draw(ox, oy, dir) == [ox |-> ox, oy |-> oy, dir |-> dir]

\* The outcomes of one initializePlayerEntities call the model draws: the
\* count (3, 4 or 5) is the length.
SpawnPlans ==
  { << Draw(59, 0, Vec(Unit, 0)), Draw(59, 0, Vec(Unit, 0)),
       Draw(59, 0, Vec(Unit, 0)) >>,
    << Draw(-60, 0, Vec(-Unit, 0)), Draw(-60, 0, Vec(-Unit, 0)),
       Draw(-60, 0, Vec(-Unit, 0)), Draw(-60, 0, Vec(-Unit, 0)) >>,
    << Draw(59, 0, Vec(Unit, 0)), Draw(-60, 0, Vec(-Unit, 0)),
       Draw(0, 59, Vec(0, Unit)), Draw(10, -60, Vec(0, -Unit)),
       Draw(30, 40, Vec(600, 800)) >> }

PlanOk(plan) ==
  /\ Len(plan) >= MinUnderlings
  /\ Len(plan) <= MaxUnderlings
  /\ \A i \in 1..Len(plan) :
       /\ plan[i].ox >= -SpawnSpread /\ plan[i].ox < SpawnSpread
       /\ plan[i].oy >= -SpawnSpread /\ plan[i].oy < SpawnSpread

\* maybeNudgeUnderling's draws for one tick: no underling turns, or the
\* first underling of the room's flatMap order turns to the drawn vector.
NoNudge == Vec(0, 0)
NudgeDraws == {NoNudge, Vec(0, Unit)}

\* crypto.randomUUID(): ids are drawn in groups, `uuid` counting the groups;
\* index 0 is the leader of a createPlayer call, 1..MaxUnderlings are the
\* underlings of one initializePlayerEntities call.  createPlayer and the
\* spawn that follows it in a handler share a group.
EntityId(group, index) == group * (MaxUnderlings + 1) + index

\* ------------------------------------------------------------- entities
Radius(type) == IF type = "leader" THEN LeaderRadius ELSE UnderlingRadius

\* createPlayer
createPlayer(connectionId, teamColor, group) ==
  [ connectionId |-> connectionId,
    teamColor |-> teamColor,
    pendingDirection |-> "none",
    leader |-> [ id |-> EntityId(group, 0), ownerId |-> connectionId,
                 x |-> 0, y |-> 0, vx |-> 0, vy |-> 0 ],
    underlings |-> << >> ]

\* A spawn that pushes the new underlings behind the old ones.
initializePlayerEntitiesKeeps(player, spawnLeft, plan, group) ==
  LET leaderX == IF spawnLeft THEN (ArenaWidth * Scale) \div 4
                 ELSE (ArenaWidth * Scale * 3) \div 4
      leaderY == (ArenaHeight * Scale) \div 2
  IN [ player EXCEPT
         !.leader = [ @ EXCEPT !.x = leaderX, !.y = leaderY,
                               !.vx = 0, !.vy = 0 ],
         !.underlings = @ \o
            [ i \in 1..Len(plan) |->
                [ id |-> EntityId(group, i),
                  ownerId |-> player.connectionId,
                  x |-> leaderX + plan[i].ox * Scale,
                  y |-> leaderY + plan[i].oy * Scale,
                  vx |-> Div(plan[i].dir.x * UnderlingSpeed * Scale, Unit),
                  vy |-> Div(plan[i].dir.y * UnderlingSpeed * Scale, Unit) ] ] ]

\* initializePlayerEntities
initializePlayerEntities(player, spawnLeft, plan, group) ==
  LET leaderX == IF spawnLeft THEN (ArenaWidth * Scale) \div 4
                 ELSE (ArenaWidth * Scale * 3) \div 4
      leaderY == (ArenaHeight * Scale) \div 2
  IN [ player EXCEPT
         !.leader = [ @ EXCEPT !.x = leaderX, !.y = leaderY,
                               !.vx = 0, !.vy = 0 ],
         !.underlings =
            [ i \in 1..Len(plan) |->
                [ id |-> EntityId(group, i),
                  ownerId |-> player.connectionId,
                  x |-> leaderX + plan[i].ox * Scale,
                  y |-> leaderY + plan[i].oy * Scale,
                  vx |-> Div(plan[i].dir.x * UnderlingSpeed * Scale, Unit),
                  vy |-> Div(plan[i].dir.y * UnderlingSpeed * Scale, Unit) ] ] ]

\* withLength: the unit vector of v times a speed, in parts per second.
Stretch(n, length) ==
  Vec(Div(n.x * length * Scale, Unit), Div(n.y * length * Scale, Unit))

withLength(v, length) == Stretch(normalize(v), length)

\* The two assignments to player.leader.vx and player.leader.vy.
Steer(player, velocity) ==
  [ player EXCEPT !.leader.vx = velocity.x, !.leader.vy = velocity.y ]

\* updateLeaderMovement (the caller has checked that it does not throw)
updateLeaderMovement(player) ==
  LET desired == directionToVector(player.pendingDirection)
  IN IF desired.x # 0 \/ desired.y # 0
     THEN Steer(player, withLength(desired, LeaderSpeed))
     ELSE Steer(player, Vec(0, 0))

\* maybeNudgeUnderling, with the draw given
maybeNudgeUnderling(underling, nudge) ==
  IF nudge = NoNudge THEN underling
  ELSE [ underling EXCEPT
           !.vx = Div(nudge.x * UnderlingSpeed * Scale, Unit),
           !.vy = Div(nudge.y * UnderlingSpeed * Scale, Unit) ]

\* advanceEntity: position += velocity * deltaSeconds
advanceEntity(entity, deltaMs) ==
  [ entity EXCEPT !.x = @ + Div(entity.vx * deltaMs, 1000),
                  !.y = @ + Div(entity.vy * deltaMs, 1000) ]

\* bounceOffWalls
bounceOffWalls(entity, type) ==
  LET r == Radius(type) * Scale
      w == ArenaWidth * Scale
      h == ArenaHeight * Scale
      hitX == entity.x - r < 0 \/ entity.x + r > w
      hitY == entity.y - r < 0 \/ entity.y + r > h
  IN [ entity EXCEPT
         !.x = IF entity.x - r < 0 THEN r
               ELSE IF entity.x + r > w THEN w - r ELSE @,
         !.vx = IF hitX THEN -@ ELSE @,
         !.y = IF entity.y - r < 0 THEN r
               ELSE IF entity.y + r > h THEN h - r ELSE @,
         !.vy = IF hitY THEN -@ ELSE @ ]

\* distanceSq < radiusSum * radiusSum, for two entities and the sum of their
\* radii in parts.  A gap of radiusSum or more on one axis decides it
\* without forming the squares.
Overlap(a, b, radiusSum) ==
  /\ Abs(a.x - b.x) < radiusSum
  /\ Abs(a.y - b.y) < radiusSum
  /\ (a.x - b.x) * (a.x - b.x) + (a.y - b.y) * (a.y - b.y)
       < radiusSum * radiusSum

\* ----------------------------------------------------------- collisions
\* The swap and push of an overlapping pair (i, j) of the pooled list `all`,
\* with the unit vector and the length of their displacement.
PushUnderlings(all, i, j, direction, length) ==
  LET a == all[i]
      b == all[j]
      separation == 2 * UnderlingRadius * Scale - length
      moved == direction.x # 0 \/ direction.y # 0
      pushX == IF moved THEN Div(direction.x * separation, 2 * Unit) ELSE 0
      pushY == IF moved THEN Div(direction.y * separation, 2 * Unit) ELSE 0
  IN [ all EXCEPT
         ![i] = [ a EXCEPT !.vx = b.vx, !.vy = b.vy,
                           !.x = @ + pushX, !.y = @ + pushY ],
         ![j] = [ b EXCEPT !.vx = a.vx, !.vy = a.vy,
                           !.x = @ - pushX, !.y = @ - pushY ] ]

\* One pair (i, j) of resolveUnderlingCollisions' pooled list `all`.
CollideUnderlings(all, i, j) ==
  IF ~Overlap(all[i], all[j], 2 * UnderlingRadius * Scale) THEN all
  ELSE PushUnderlings(all, i, j,
         normalize(Vec(all[i].x - all[j].x, all[i].y - all[j].y)),
         vectorLength(Vec(all[i].x - all[j].x, all[i].y - all[j].y)))

RECURSIVE CollidePairs(_, _, _)
CollidePairs(all, i, j) ==
  IF i > Len(all) THEN all
  ELSE IF j > Len(all) THEN CollidePairs(all, i + 1, i + 2)
  ELSE CollidePairs(CollideUnderlings(all, i, j), i, j + 1)

\* players.flatMap((p) => p.underlings)
RECURSIVE FlatUnderlings(_, _)
FlatUnderlings(players, k) ==
  IF k > Len(players) THEN << >>
  ELSE players[k].underlings \o FlatUnderlings(players, k + 1)

\* The pooled list written back to the players that own its entities (the
\* source mutates the shared objects in place).
RECURSIVE Unflatten(_, _, _, _)
Unflatten(players, all, k, from) ==
  IF k > Len(players) THEN players
  ELSE LET n == Len(players[k].underlings)
       IN Unflatten(
            [ players EXCEPT ![k].underlings = SubSeq(all, from, from + n - 1) ],
            all, k + 1, from + n)

\* resolveUnderlingCollisions
resolveUnderlingCollisions(players) ==
  Unflatten(players, CollidePairs(FlatUnderlings(players, 1), 1, 2), 1, 1)

\* splice(i): the underling and all behind it leave the list.
RemoveFrom(seq, i) == SubSeq(seq, 1, i - 1)

\* splice(i, 1)
RemoveAt(seq, i) == SubSeq(seq, 1, i - 1) \o SubSeq(seq, i + 1, Len(seq))

\* The leader of players[p] eats underling i of players[o] and is pushed
\* along `push`.
Eat(players, p, o, i, push) ==
  [ players EXCEPT
      ![o].underlings = RemoveAt(@, i),
      ![p].leader =
         [ @ EXCEPT
             !.x = @ + Div(push.x * EatPush * Scale, Unit),
             !.y = @ + Div(push.y * EatPush * Scale, Unit),
             !.vx = Div(push.x * LeaderSpeed * Scale, Unit),
             !.vy = Div(push.y * LeaderSpeed * Scale, Unit) ] ]

\* The push of an overlapping leader and underling whose displacement has
\* the unit vector n: randomUnitVector() when n is the zero vector.
EatAlong(st, p, o, i, n, fallback) ==
  IF n.x = 0 /\ n.y = 0
  THEN [ players |-> Eat(st.players, p, o, i, fallback), random |-> TRUE ]
  ELSE [ players |-> Eat(st.players, p, o, i, n), random |-> st.random ]

\* An inner loop body that removes the underling without the distance test.
EatStepAny(st, p, o, i, fallback) ==
  [ players |-> Eat(st.players, p, o, i, fallback), random |-> st.random ]

\* The body of resolveLeaderUnderlingCollisions' inner loop: the leader of
\* players[p] against underling i of players[o].  `st` carries the players
\* and whether randomUnitVector() was consulted.
EatStep(st, p, o, i, fallback) ==
  LET leader == st.players[p].leader
      underling == st.players[o].underlings[i]
  IN IF ~Overlap(leader, underling, (LeaderRadius + UnderlingRadius) * Scale)
     THEN st
     ELSE EatAlong(st, p, o, i,
            normalize(Vec(leader.x - underling.x, leader.y - underling.y)),
            fallback)

\* for (let i = opponent.underlings.length - 1; i >= 0; i -= 1)
RECURSIVE EatLoop(_, _, _, _, _)
EatLoop(st, p, o, i, fallback) ==
  IF i < 1 THEN st
  ELSE EatLoop(EatStep(st, p, o, i, fallback), p, o, i - 1, fallback)

\* An opponent loop without the filter: the player's own list is passed too.
RECURSIVE OpponentLoopAll(_, _, _, _)
OpponentLoopAll(st, p, o, fallback) ==
  IF o > Len(st.players) THEN st
  ELSE OpponentLoopAll(
         EatLoop(st, p, o, Len(st.players[o].underlings), fallback),
         p, o + 1, fallback)

\* for (const opponent of players.filter((q) => q !== player))
RECURSIVE OpponentLoop(_, _, _, _)
OpponentLoop(st, p, o, fallback) ==
  IF o > Len(st.players) THEN st
  ELSE IF o = p THEN OpponentLoop(st, p, o + 1, fallback)
  ELSE OpponentLoop(
         EatLoop(st, p, o, Len(st.players[o].underlings), fallback),
         p, o + 1, fallback)

RECURSIVE PlayerLoop(_, _, _)
PlayerLoop(st, p, fallback) ==
  IF p > Len(st.players) THEN st
  ELSE PlayerLoop(OpponentLoop(st, p, 1, fallback), p + 1, fallback)

\* resolveLeaderUnderlingCollisions
resolveLeaderUnderlingCollisions(players, fallback) ==
  PlayerLoop([players |-> players, random |-> FALSE], 1, fallback)

\* The two overlapping leaders pushed apart along `direction`.
PushLeaders(players, direction) ==
  LET vx == Div(direction.x * LeaderSpeed * Scale, Unit)
      vy == Div(direction.y * LeaderSpeed * Scale, Unit)
      px == Div(direction.x * LeaderPush * Scale, Unit)
      py == Div(direction.y * LeaderPush * Scale, Unit)
  IN [ players EXCEPT
         ![1].leader = [ @ EXCEPT !.vx = vx, !.vy = vy,
                                  !.x = @ + px, !.y = @ + py ],
         ![2].leader = [ @ EXCEPT !.vx = -vx, !.vy = -vy,
                                  !.x = @ - px, !.y = @ - py ] ]

\* The direction of the leaders' push: { x: 1, y: 0 } when the unit vector
\* n of their displacement is the zero vector.
PushDirection(n) == IF n.x = 0 /\ n.y = 0 THEN Vec(Unit, 0) ELSE n

\* The two leaders of resolveLeaderCollisions.
CollideLeaders(players) ==
  IF ~Overlap(players[1].leader, players[2].leader, 2 * LeaderRadius * Scale)
  THEN players
  ELSE PushLeaders(players,
         PushDirection(
           normalize(Vec(players[1].leader.x - players[2].leader.x,
                         players[1].leader.y - players[2].leader.y))))

\* resolveLeaderCollisions: with other than two players it returns before
\* the leader-underling pass.
resolveLeaderCollisions(players, fallback) ==
  IF Len(players) # 2 THEN [players |-> players, random |-> FALSE]
  ELSE resolveLeaderUnderlingCollisions(CollideLeaders(players), fallback)

\* ---------------------------------------------------------------- rooms
\* The registry `rooms` is a Map: a sequence of rooms in insertion order.
\* A room's `players` is a Map too: a sequence of players in insertion
\* order, keyed by connectionId.
RECURSIVE IndexOfRoom(_, _, _)
IndexOfRoom(rs, roomId, k) ==
  IF k > Len(rs) THEN 0
  ELSE IF rs[k].id = roomId THEN k
  ELSE IndexOfRoom(rs, roomId, k + 1)

\* rooms.has(roomId)
HasRoom(rs, roomId) == IndexOfRoom(rs, roomId, 1) # 0

\* rooms.get(roomId), for a room the registry has
GetRoom(rs, roomId) == rs[IndexOfRoom(rs, roomId, 1)]

\* rooms.set(room.id, room), for a room the registry has
PutRoom(rs, room) == [ rs EXCEPT ![IndexOfRoom(rs, room.id, 1)] = room ]

\* rooms.delete(roomId)
DeleteRoom(rs, roomId) ==
  LET k == IndexOfRoom(rs, roomId, 1)
  IN IF k = 0 THEN rs ELSE RemoveAt(rs, k)

RECURSIVE IndexOfPlayer(_, _, _)
IndexOfPlayer(players, connectionId, k) ==
  IF k > Len(players) THEN 0
  ELSE IF players[k].connectionId = connectionId THEN k
  ELSE IndexOfPlayer(players, connectionId, k + 1)

\* room.players.has(connectionId)
HasPlayer(room, connectionId) == IndexOfPlayer(room.players, connectionId, 1) # 0

\* room.players.set(connectionId, player): a key the map has keeps its place
SetPlayer(players, player) ==
  LET k == IndexOfPlayer(players, player.connectionId, 1)
  IN IF k = 0 THEN Append(players, player)
     ELSE [ players EXCEPT ![k] = player ]

\* room.players.delete(connectionId)
DeletePlayer(players, connectionId) ==
  LET k == IndexOfPlayer(players, connectionId, 1)
  IN IF k = 0 THEN players ELSE RemoveAt(players, k)

\* createRoom's room object
NewRoom(roomId, t) ==
  [ id |-> roomId,
    lastActivity |-> t,
    isActive |-> FALSE,
    winnerId |-> Null,
    winnerBroadcasted |-> FALSE,
    players |-> << >> ]

\* touchRoom
touchRoom(room, t) == [ room EXCEPT !.lastActivity = t ]

\* An expiry test that gives every room a second timeout.
isExpiredLate(room, t) == t - room.lastActivity > 2 * RoomTimeoutMs

\* isExpired
isExpired(room, t) == t - room.lastActivity > RoomTimeoutMs

\* shouldStart that is content with one player.
shouldStartAlone(room) ==
  Len(room.players) >= 1 /\ ~room.isActive /\ room.winnerId = Null

\* shouldStart that overlooks a recorded winner.
shouldStartAgain(room) == Len(room.players) = 2 /\ ~room.isActive

\* shouldStart
shouldStart(room) ==
  Len(room.players) = 2 /\ ~room.isActive /\ room.winnerId = Null

\* resetRoom that respawns nothing.
resetRoomKeeps(room, plans, group, t) == touchRoom(room, t)

\* resetRoom: plans[k] is the draw of the k-th player's spawn, which takes
\* the id group `group + k - 1`.
resetRoom(room, plans, group, t) ==
  touchRoom(
    [ room EXCEPT
        !.players =
           [ k \in 1..Len(room.players) |->
               initializePlayerEntities(
                 room.players[k],
                 toLowerCase(room.players[k].teamColor) = "blue",
                 plans[k], group + k - 1) ] ],
    t)

\* checkForWinner
RECURSIVE WinnerLoop(_, _, _)
WinnerLoop(room, k, t) ==
  IF k > Len(room.players) THEN room
  ELSE LET others == { j \in 1..Len(room.players) : j # k }
       IN IF others = {} THEN WinnerLoop(room, k + 1, t)
          ELSE LET opponent ==
                     room.players[CHOOSE j \in others : \A i \in others : j <= i]
               IN IF Len(opponent.underlings) = 0
                  THEN touchRoom(
                         [ room EXCEPT
                             !.isActive = FALSE,
                             !.winnerId = room.players[k].connectionId,
                             !.winnerBroadcasted = FALSE ],
                         t)
                  ELSE WinnerLoop(room, k + 1, t)

\* checkForWinner that declares nobody.
checkForWinnerNever(room, t) == room

\* checkForWinner that records the winner and leaves the match running.
checkForWinnerStaysActive(room, t) ==
  [ WinnerLoop(room, 1, t) EXCEPT !.isActive = room.isActive ]

\* checkForWinner that goes through the players from the last one.
RECURSIVE WinnerLoopBack(_, _, _)
WinnerLoopBack(room, k, t) ==
  IF k < 1 THEN room
  ELSE LET others == { j \in 1..Len(room.players) : j # k }
       IN IF others = {} THEN WinnerLoopBack(room, k - 1, t)
          ELSE LET opponent ==
                     room.players[CHOOSE j \in others : \A i \in others : j <= i]
               IN IF Len(opponent.underlings) = 0
                  THEN touchRoom(
                         [ room EXCEPT
                             !.isActive = FALSE,
                             !.winnerId = room.players[k].connectionId,
                             !.winnerBroadcasted = FALSE ],
                         t)
                  ELSE WinnerLoopBack(room, k - 1, t)

checkForWinnerLast(room, t) == WinnerLoopBack(room, Len(room.players), t)

checkForWinner(room, t) == WinnerLoop(room, 1, t)

\* The entity views of buildStateSnapshot.
EntityView(entity, type, color) ==
  [ id |-> entity.id, ownerId |-> entity.ownerId,
    x |-> entity.x, y |-> entity.y, radius |-> Radius(type),
    color |-> color, type |-> type, vx |-> entity.vx, vy |-> entity.vy ]

\* A snapshot that never names a winner.
buildStateSnapshotNoWinner(room, t) ==
  [ roomId |-> room.id,
    isActive |-> room.isActive,
    players |->
       [ k \in 1..Len(room.players) |->
           LET player == room.players[k]
           IN [ connectionId |-> player.connectionId,
                teamColor |-> player.teamColor,
                leader |-> EntityView(player.leader, "leader", player.teamColor),
                underlings |->
                   [ i \in 1..Len(player.underlings) |->
                       EntityView(player.underlings[i], "underling",
                                  player.teamColor) ] ] ],
    winnerId |-> Null,
    serverTime |-> t ]

\* buildStateSnapshot
buildStateSnapshot(room, t) ==
  [ roomId |-> room.id,
    isActive |-> room.isActive,
    players |->
       [ k \in 1..Len(room.players) |->
           LET player == room.players[k]
           IN [ connectionId |-> player.connectionId,
                teamColor |-> player.teamColor,
                leader |-> EntityView(player.leader, "leader", player.teamColor),
                underlings |->
                   [ i \in 1..Len(player.underlings) |->
                       EntityView(player.underlings[i], "underling",
                                  player.teamColor) ] ] ],
    winnerId |-> room.winnerId,
    serverTime |-> t ]

\* The first loop of updateRoom: updateLeaderMovement for each player, until
\* one throws.
RECURSIVE LeaderLoop(_, _)
LeaderLoop(players, k) ==
  IF k > Len(players) THEN [players |-> players, threw |-> FALSE]
  ELSE IF Throws(players[k].pendingDirection)
  THEN [players |-> players, threw |-> TRUE]
  ELSE LeaderLoop([ players EXCEPT ![k] = updateLeaderMovement(@) ], k + 1)

\* The second loop of updateRoom, over the pooled underlings.
MoveUnderlings(all, deltaMs, nudge) ==
  [ i \in 1..Len(all) |->
      bounceOffWalls(
        advanceEntity(
          maybeNudgeUnderling(all[i], IF i = 1 THEN nudge ELSE NoNudge),
          deltaMs),
        "underling") ]

\* The third loop of updateRoom.
MoveLeaders(players, deltaMs) ==
  [ k \in 1..Len(players) |->
      [ players[k] EXCEPT
          !.leader = bounceOffWalls(advanceEntity(@, deltaMs), "leader") ] ]

\* The second and third loops of updateRoom and its two collision passes.
MoveAndCollide(players, deltaMs, nudge, fallback) ==
  resolveLeaderCollisions(
    resolveUnderlingCollisions(
      MoveLeaders(
        Unflatten(players,
                  MoveUnderlings(FlatUnderlings(players, 1), deltaMs, nudge),
                  1, 1),
        deltaMs)),
    fallback)

\* An end of updateRoom that does not look for a winner.
SettleUnchecked(room, eaten, t) ==
  [ room |-> touchRoom([ room EXCEPT !.players = eaten.players ], t),
    random |-> eaten.random, threw |-> FALSE ]

\* The end of updateRoom, with the outcome `eaten` of the collision passes.
Settle(room, eaten, t) ==
  [ room |-> touchRoom(
               checkForWinner([ room EXCEPT !.players = eaten.players ], t), t),
    random |-> eaten.random, threw |-> FALSE ]

\* updateRoom after its first loop, whose outcome is `led`.
UpdateLed(room, led, deltaMs, nudge, fallback, t) ==
  IF led.threw
  THEN [ room |-> [ room EXCEPT !.players = led.players ],
         random |-> FALSE, threw |-> TRUE ]
  ELSE Settle(room, MoveAndCollide(led.players, deltaMs, nudge, fallback), t)

\* updateRoom: the room after the step, whether randomUnitVector() was
\* consulted for a coincident leader and underling, and whether the step
\* threw (the room is then as the throw left it).
updateRoom(room, deltaMs, nudge, fallback, t) ==
  UpdateLed(room, LeaderLoop(room.players, 1), deltaMs, nudge, fallback, t)

\* A departure that stops nothing.
ForfeitSkipped(room, t) == room

\* A departure that records a winner whether or not a match is on.
ForfeitAlways(room, t) ==
  touchRoom(
    [ room EXCEPT !.isActive = FALSE,
                  !.winnerId = room.players[1].connectionId,
                  !.winnerBroadcasted = FALSE ],
    t)

\* handleDisconnect's `if (room.isActive)` block, on the room the leaver has
\* been removed from.
Forfeit(room, t) ==
  IF room.isActive
  THEN touchRoom(
         [ room EXCEPT !.isActive = FALSE,
                       !.winnerId = room.players[1].connectionId,
                       !.winnerBroadcasted = FALSE ],
         t)
  ELSE room

\* A departure that keeps the room of its last player.
DepartKeepsEmpty(rs, room, connectionId, t) ==
  PutRoom(rs,
    IF Len(DeletePlayer(room.players, connectionId)) = 0
    THEN touchRoom([ room EXCEPT !.players = << >> ], t)
    ELSE Forfeit(touchRoom(
                   [ room EXCEPT !.players = DeletePlayer(@, connectionId) ], t),
                 t))

\* handleDisconnect after its two early returns, on the room it found.
Depart(rs, room, connectionId, t) ==
  IF Len(DeletePlayer(room.players, connectionId)) = 0
  THEN DeleteRoom(rs, room.id)
  ELSE PutRoom(rs,
         Forfeit(touchRoom(
                   [ room EXCEPT !.players = DeletePlayer(@, connectionId) ], t),
                 t))

\* handleDisconnect: the registry after it.
handleDisconnect(rs, connectionId, roomId, t) ==
  IF roomId = Null \/ ~HasRoom(rs, roomId) THEN rs
  ELSE Depart(rs, GetRoom(rs, roomId), connectionId, t)

\* ---------------------------------------------------------------- state
VARIABLES
  rooms,      \* the registry `rooms`
  info,       \* connectionInfo and socketsById, per connection id
  now,        \* the wall clock nowMs() reads, in ms
  lastTick,   \* `lastTick` of the tick callback
  uuid,       \* id groups crypto.randomUUID() has handed out
  crashed,    \* an exception left a handler: the process has ended
  last,       \* the event whose handler ran last
  out,        \* what that handler sent, in order
  \* the C# server (GameManager over one GameRoom)
  registered, \* `_rooms` holds the room
  gameRoom,   \* the GameRoom object and its players
  syncRoot,   \* the thread inside lock (room.SyncRoot), if any
  utcNow,     \* DateTime.UtcNow, in minutes
  calls,      \* per thread: where its GameManager call stands, its locals
  hub         \* what the last TickAsync sent through _hubContext

jsVars == << rooms, info, now, lastTick, uuid, crashed, last, out >>
csVars == << registered, gameRoom, syncRoot, utcNow, calls, hub >>
vars == << jsVars, csVars >>

Event(op, conn, arg) == [op |-> op, conn |-> conn, arg |-> arg]

\* One ws.send / broadcastRoom call: `to` are the connections whose open
\* socket got the payload.
Msg(type, to, roomId, data) ==
  [type |-> type, to |-> to, roomId |-> roomId, data |-> data]

IsOpen(c) == info[c].status = "open"

\* The players of a room whose socket socketsById holds and is open.
RECURSIVE Recipients(_, _, _)
Recipients(players, k, inf) ==
  IF k > Len(players) THEN << >>
  ELSE (IF inf[players[k].connectionId].status = "open"
        THEN << players[k].connectionId >> ELSE << >>)
       \o Recipients(players, k + 1, inf)

\* broadcastRoom
broadcastRoom(rs, roomId, type, data) ==
  IF ~HasRoom(rs, roomId) THEN << >>
  ELSE << Msg(type, Recipients(GetRoom(rs, roomId).players, 1, info),
              roomId, data) >>

\* sendLobbyUpdate
sendLobbyUpdate(rs, room) ==
  broadcastRoom(rs, room.id, "playerJoined",
    [ k \in 1..Len(room.players) |->
        [ playerId |-> room.players[k].connectionId,
          teamColor |-> room.players[k].teamColor ] ])

\* ------------------------------------------------------------ C# server
\* GameManager over one GameRoom. Every connection is a thread that makes one
\* GameManager call at a time, and TickAsync runs on the thread of
\* GameLoopService. A step is one access to state other threads can see;
\* what a call computes on objects no other thread can reach yet is part of
\* the step that publishes them.
\* GenerateRoomId draws six characters of ABCDEFGHJKLMNPQRSTUVWXYZ23456789;
\* the model follows the one room with the code drawn first, so CreateRoom's
\* loop that redraws a code the registry holds has nothing to redraw.
RoomCode == "RMCD22"
TickThread == "tick"
CsConns == {"h", "j1", "j2", "j3"}
Threads == CsConns \cup {TickThread}
RoomInactivityTimeout == 10
ElapseMinutes == RoomInactivityTimeout + 1

\* new Player(connectionId, teamColor, displayName) after
\* InitializePlayerEntities drew `count` underlings for it.  Of a player's
\* entities the model keeps the number of underlings: positions and
\* velocities are left out.
Player(teamColor, count) ==
  [TeamColor |-> teamColor, PendingDirection |-> "None", Underlings |-> count]

NoPlayers == [c \in {} |-> Player("blue", 0)]

\* new GameRoom(id) at time t
GameRoom(id, t) ==
  [Id |-> id, players |-> NoPlayers, IsActive |-> FALSE, WinnerId |-> Null,
   WinnerBroadcasted |-> FALSE, LastActivityUtc |-> t]

\* _players.Count
Count(room) == Cardinality(DOMAIN room.players)

\* _players.TryAdd
TryAdd(room, c, player) ==
  [room EXCEPT !.players =
     [k \in DOMAIN room.players \cup {c} |->
        IF k = c THEN player ELSE room.players[k]]]

\* _players.TryRemove
TryRemove(room, c) ==
  [room EXCEPT !.players = [k \in DOMAIN room.players \ {c} |-> room.players[k]]]

\* GameRoom.Touch
Touch(room, t) == [room EXCEPT !.LastActivityUtc = t]

\* GameRoom.IsExpired
IsExpired(room, t) == t - room.LastActivityUtc > RoomInactivityTimeout

\* GameRoom.ShouldStart
ShouldStart(room) == Count(room) = 2 /\ ~room.IsActive

\* GameRoom.Start
Start(room, t) ==
  Touch([room EXCEPT !.IsActive = TRUE, !.WinnerId = Null,
                     !.WinnerBroadcasted = FALSE], t)

\* GameRoom.Stop
Stop(room, winnerId, t) ==
  Touch([room EXCEPT !.WinnerId = winnerId, !.IsActive = FALSE,
                     !.WinnerBroadcasted = FALSE], t)

\* GameRoom.MarkWinnerBroadcasted
MarkWinnerBroadcasted(room) == [room EXCEPT !.WinnerBroadcasted = TRUE]

\* The underling counts InitializePlayerEntities can draw:
\* Random.Shared.Next(MinUnderlingsPerPlayer, MaxUnderlingsPerPlayer + 1).
UnderlingCounts == MinUnderlings..MaxUnderlings

\* The draws of one ResetRoom, one for each player of the room, out of U.
Draws(room, U) == [DOMAIN room.players -> U]

\* GameManager.ResetRoom, player k drawing counts[k] underlings
ResetRoom(room, counts, t) ==
  Touch([room EXCEPT !.players =
           [k \in DOMAIN room.players |->
              [room.players[k] EXCEPT !.Underlings = counts[k]]]], t)

\* The orders in which _players.Values can enumerate the players.
Orders(players) ==
  { order \in [1..Cardinality(DOMAIN players) -> DOMAIN players] :
      \A i, j \in DOMAIN order : order[i] = order[j] => i = j }

\* The places of the enumeration `order` that hold another Player than
\* `player`. Players are compared as objects, and connections stand for
\* them: a connection that has left cannot be back with a new Player before
\* the loop of CheckForWinner is over, because its HandleDisconnect waits
\* for the SyncRoot that TickAsync holds.
Differing(order, player) == { i \in DOMAIN order : order[i] # player }

\* room.Players.FirstOrDefault(p => p != player), room.Players being
\* enumerated in `order`
Opponent(order, player) ==
  IF Differing(order, player) = {} THEN Null
  ELSE order[CHOOSE i \in Differing(order, player) :
               \A j \in Differing(order, player) : i <= j]

\* CheckForWinner, one turn of its loop: the opponent of `player` is there
\* and has no underling.
Beaten(room, order, player) ==
  /\ Opponent(order, player) # Null
  /\ room.players[Opponent(order, player)].Underlings = 0

\* Whether a leader eats an underling when the players keep `left`.
Eats(room, left) ==
  Count(room) = 2 /\ \E k \in DOMAIN left : left[k] < room.players[k].Underlings

\* What UpdateRoom does before CheckForWinner: when the room has two players
\* the leaders eat what they touch, `left` being the underlings each player
\* keeps, and every underling eaten is followed by room.Touch().
Simulate(room, left, t) ==
  [room EXCEPT
     !.players =
        [k \in DOMAIN room.players |->
           [room.players[k] EXCEPT
              !.Underlings = IF Count(room) = 2 THEN left[k] ELSE @]],
     !.LastActivityUtc = IF Eats(room, left) THEN t ELSE @]

\* The underlings the players of a room can keep through one UpdateRoom.
Leftovers(room) ==
  { left \in [DOMAIN room.players -> 0..MaxUnderlings] :
      \A k \in DOMAIN left : left[k] <= room.players[k].Underlings }

\* GameManager.BuildStateSnapshot: the players it has enumerated, and the
\* room's IsActive and WinnerId as they are when the view is made.
BuildStateSnapshot(room, players) ==
  [roomId |-> room.Id, isActive |-> room.IsActive,
   players |-> players, winnerId |-> room.WinnerId]

Idle ==
  [pc |-> "idle", result |-> Null, winnerId |-> Null,
   announceWinner |-> FALSE, state |-> << >>, players |-> << >>]

InitCs ==
  /\ registered = FALSE
  /\ gameRoom = GameRoom(Null, 0)
  /\ syncRoot = Null
  /\ utcNow = 0
  /\ calls = [t \in Threads |-> Idle]
  /\ hub = << >>

At(t, pc) == calls[t].pc = pc
Goto(t, pc) == [calls EXCEPT ![t].pc = pc]
Return(t, result) == [calls EXCEPT ![t] = [Idle EXCEPT !.result = result]]

\* GameManager.CreateRoom: the room is published by `_rooms[roomId] = room`.
\* One room is made.
CreateRoom(c, count) ==
  /\ At(c, "idle")
  /\ gameRoom.Id = Null
  /\ gameRoom' = Touch(TryAdd(GameRoom(RoomCode, utcNow), c,
                              Player("blue", count)), utcNow)
  /\ registered' = TRUE
  /\ calls' = Return(c, "Created")
  /\ UNCHANGED << syncRoot, utcNow, hub >>
  /\ UNCHANGED jsVars

\* GameManager.TryJoinRoom: _rooms.TryGetValue
JoinLookup(c) ==
  /\ At(c, "idle")
  /\ calls' = IF registered THEN Goto(c, "join.count")
              ELSE Return(c, "RoomNotFound")
  /\ UNCHANGED << registered, gameRoom, syncRoot, utcNow, hub >>
  /\ UNCHANGED jsVars

\* TryJoinRoom: room.Players.Count() and the team that follows from it
JoinCount(c) ==
  /\ At(c, "join.count")
  /\ calls' = IF Count(gameRoom) >= 2 THEN Return(c, "RoomFull")
              ELSE IF Count(gameRoom) = 0 THEN Goto(c, "join.blue")
              ELSE Goto(c, "join.red")
  /\ UNCHANGED << registered, gameRoom, syncRoot, utcNow, hub >>
  /\ UNCHANGED jsVars

TeamOf(c) == IF At(c, "join.add.blue") THEN "blue" ELSE "red"

\* GameRoom.TryAddPlayer: _players.Count >= 2
JoinCheck(c) ==
  /\ At(c, "join.blue") \/ At(c, "join.red")
  /\ calls' = IF Count(gameRoom) >= 2 THEN Return(c, "RoomFull")
              ELSE IF At(c, "join.blue") THEN Goto(c, "join.add.blue")
              ELSE Goto(c, "join.add.red")
  /\ UNCHANGED << registered, gameRoom, syncRoot, utcNow, hub >>
  /\ UNCHANGED jsVars

\* TryAddPlayer: _players.TryAdd
JoinAdd(c, count) ==
  /\ At(c, "join.add.blue") \/ At(c, "join.add.red")
  /\ IF c \in DOMAIN gameRoom.players
     THEN /\ calls' = Return(c, "RoomFull")
          /\ UNCHANGED gameRoom
     ELSE /\ gameRoom' = TryAdd(gameRoom, c, Player(TeamOf(c), count))
          /\ calls' = Goto(c, "join.touch")
  /\ UNCHANGED << registered, syncRoot, utcNow, hub >>
  /\ UNCHANGED jsVars

\* TryAddPlayer: Touch, and TryJoinRoom returns true
JoinTouch(c) ==
  /\ At(c, "join.touch")
  /\ gameRoom' = Touch(gameRoom, utcNow)
  /\ calls' = Return(c, "Joined")
  /\ UNCHANGED << registered, syncRoot, utcNow, hub >>
  /\ UNCHANGED jsVars

\* GameManager.TryRegisterMove: _rooms.TryGetValue
MoveLookup(c) ==
  /\ At(c, "idle")
  /\ calls' = IF registered THEN Goto(c, "move.player")
              ELSE Return(c, "NoRoom")
  /\ UNCHANGED << registered, gameRoom, syncRoot, utcNow, hub >>
  /\ UNCHANGED jsVars

\* TryRegisterMove: room.TryGetPlayer
MovePlayer(c) ==
  /\ At(c, "move.player")
  /\ calls' = IF c \in DOMAIN gameRoom.players THEN Goto(c, "move.input")
              ELSE Return(c, "NoPlayer")
  /\ UNCHANGED << registered, gameRoom, syncRoot, utcNow, hub >>
  /\ UNCHANGED jsVars

\* TryRegisterMove: player.UpdateInput(direction), on the Player object the
\* lookup found (only the thread of c removes it from the room)
MoveInput(c, direction) ==
  /\ At(c, "move.input")
  /\ gameRoom' = [gameRoom EXCEPT !.players[c].PendingDirection = direction]
  /\ calls' = Goto(c, "move.touch")
  /\ UNCHANGED << registered, syncRoot, utcNow, hub >>
  /\ UNCHANGED jsVars

\* TryRegisterMove: room.Touch, and it returns true
MoveTouch(c) ==
  /\ At(c, "move.touch")
  /\ gameRoom' = Touch(gameRoom, utcNow)
  /\ calls' = Return(c, "Moved")
  /\ UNCHANGED << registered, syncRoot, utcNow, hub >>
  /\ UNCHANGED jsVars

\* GameManager.HandleDisconnect: the foreach over _rooms
LeaveRooms(c) ==
  /\ At(c, "idle")
  /\ calls' = IF registered THEN Goto(c, "leave.find")
              ELSE Return(c, "NoRoom")
  /\ UNCHANGED << registered, gameRoom, syncRoot, utcNow, hub >>
  /\ UNCHANGED jsVars

\* HandleDisconnect: room.TryGetPlayer
LeaveFind(c) ==
  /\ At(c, "leave.find")
  /\ calls' = IF c \in DOMAIN gameRoom.players THEN Goto(c, "leave.remove")
              ELSE Return(c, "NoPlayer")
  /\ UNCHANGED << registered, gameRoom, syncRoot, utcNow, hub >>
  /\ UNCHANGED jsVars

\* GameRoom.RemovePlayer: _players.TryRemove
LeaveRemove(c) ==
  /\ At(c, "leave.remove")
  /\ gameRoom' = TryRemove(gameRoom, c)
  /\ calls' = IF c \in DOMAIN gameRoom.players THEN Goto(c, "leave.touch")
              ELSE Goto(c, "leave.lock")
  /\ UNCHANGED << registered, syncRoot, utcNow, hub >>
  /\ UNCHANGED jsVars

\* RemovePlayer: Touch
LeaveTouch(c) ==
  /\ At(c, "leave.touch")
  /\ gameRoom' = Touch(gameRoom, utcNow)
  /\ calls' = Goto(c, "leave.empty")
  /\ UNCHANGED << registered, syncRoot, utcNow, hub >>
  /\ UNCHANGED jsVars

\* RemovePlayer: _players.IsEmpty
LeaveEmpty(c) ==
  /\ At(c, "leave.empty")
  /\ calls' = IF Count(gameRoom) = 0 THEN Goto(c, "leave.inactive")
              ELSE Goto(c, "leave.lock")
  /\ UNCHANGED << registered, gameRoom, syncRoot, utcNow, hub >>
  /\ UNCHANGED jsVars

\* RemovePlayer: IsActive = false
LeaveInactive(c) ==
  /\ At(c, "leave.inactive")
  /\ gameRoom' = [gameRoom EXCEPT !.IsActive = FALSE]
  /\ calls' = Goto(c, "leave.lock")
  /\ UNCHANGED << registered, syncRoot, utcNow, hub >>
  /\ UNCHANGED jsVars

\* HandleDisconnect: lock (room.SyncRoot)
LeaveLock(c) ==
  /\ At(c, "leave.lock")
  /\ syncRoot = Null
  /\ syncRoot' = c
  /\ calls' = Goto(c, "leave.isEmpty")
  /\ UNCHANGED << registered, gameRoom, utcNow, hub >>
  /\ UNCHANGED jsVars

\* HandleDisconnect: !room.IsEmpty
LeaveIsEmpty(c) ==
  /\ At(c, "leave.isEmpty")
  /\ calls' = IF Count(gameRoom) = 0 THEN Goto(c, "leave.unlock")
              ELSE Goto(c, "leave.isActive")
  /\ UNCHANGED << registered, gameRoom, syncRoot, utcNow, hub >>
  /\ UNCHANGED jsVars

\* HandleDisconnect: room.IsActive
LeaveIsActive(c) ==
  /\ At(c, "leave.isActive")
  /\ calls' = IF gameRoom.IsActive THEN Goto(c, "leave.first")
              ELSE Goto(c, "leave.unlock")
  /\ UNCHANGED << registered, gameRoom, syncRoot, utcNow, hub >>
  /\ UNCHANGED jsVars

\* HandleDisconnect: room.Players.First(), which throws out of the lock and
\* of the call when the room has no player
LeaveFirst(c) ==
  /\ At(c, "leave.first")
  /\ IF Count(gameRoom) = 0
     THEN /\ calls' = Return(c, "InvalidOperationException")
          /\ syncRoot' = Null
     ELSE /\ \E remaining \in DOMAIN gameRoom.players :
               calls' = [calls EXCEPT ![c].pc = "leave.stop",
                                      ![c].winnerId = remaining]
          /\ UNCHANGED syncRoot
  /\ UNCHANGED << registered, gameRoom, utcNow, hub >>
  /\ UNCHANGED jsVars

\* HandleDisconnect: room.Stop(remaining.ConnectionId)
LeaveStop(c) ==
  /\ At(c, "leave.stop")
  /\ gameRoom' = Stop(gameRoom, calls[c].winnerId, utcNow)
  /\ calls' = Goto(c, "leave.unlock")
  /\ UNCHANGED << registered, syncRoot, utcNow, hub >>
  /\ UNCHANGED jsVars

\* HandleDisconnect: the end of the lock block
LeaveUnlock(c) ==
  /\ At(c, "leave.unlock")
  /\ syncRoot' = Null
  /\ calls' = Goto(c, "leave.gone")
  /\ UNCHANGED << registered, gameRoom, utcNow, hub >>
  /\ UNCHANGED jsVars

\* HandleDisconnect: room.IsEmpty after the lock
LeaveGone(c) ==
  /\ At(c, "leave.gone")
  /\ calls' = IF Count(gameRoom) = 0 THEN Goto(c, "leave.delete")
              ELSE Return(c, "Left")
  /\ UNCHANGED << registered, gameRoom, syncRoot, utcNow, hub >>
  /\ UNCHANGED jsVars

\* HandleDisconnect: _rooms.TryRemove
LeaveDelete(c) ==
  /\ At(c, "leave.delete")
  /\ registered' = FALSE
  /\ calls' = Return(c, "Left")
  /\ UNCHANGED << gameRoom, syncRoot, utcNow, hub >>
  /\ UNCHANGED jsVars

\* GameManager.TryRestartMatch: _rooms.TryGetValue
RestartLookup(c) ==
  /\ At(c, "idle")
  /\ calls' = IF registered THEN Goto(c, "restart.lock")
              ELSE Return(c, "NoRoom")
  /\ UNCHANGED << registered, gameRoom, syncRoot, utcNow, hub >>
  /\ UNCHANGED jsVars

\* TryRestartMatch: lock (room.SyncRoot)
RestartLock(c) ==
  /\ At(c, "restart.lock")
  /\ syncRoot = Null
  /\ syncRoot' = c
  /\ calls' = Goto(c, "restart.count")
  /\ UNCHANGED << registered, gameRoom, utcNow, hub >>
  /\ UNCHANGED jsVars

\* TryRestartMatch: room.Players.Count() < 2 returns false out of the lock
RestartCount(c) ==
  /\ At(c, "restart.count")
  /\ IF Count(gameRoom) < 2
     THEN /\ calls' = Return(c, "NotRestarted")
          /\ syncRoot' = Null
     ELSE /\ calls' = Goto(c, "restart.reset")
          /\ UNCHANGED syncRoot
  /\ UNCHANGED << registered, gameRoom, utcNow, hub >>
  /\ UNCHANGED jsVars

\* TryRestartMatch: ResetRoom(room)
RestartReset(c, counts) ==
  /\ At(c, "restart.reset")
  /\ gameRoom' = ResetRoom(gameRoom, counts, utcNow)
  /\ calls' = Goto(c, "restart.start")
  /\ UNCHANGED << registered, syncRoot, utcNow, hub >>
  /\ UNCHANGED jsVars

\* TryRestartMatch: room.Start()
RestartStart(c) ==
  /\ At(c, "restart.start")
  /\ gameRoom' = Start(gameRoom, utcNow)
  /\ calls' = Goto(c, "restart.unlock")
  /\ UNCHANGED << registered, syncRoot, utcNow, hub >>
  /\ UNCHANGED jsVars

\* TryRestartMatch: it returns true out of the lock
RestartUnlock(c) ==
  /\ At(c, "restart.unlock")
  /\ syncRoot' = Null
  /\ calls' = Return(c, "Restarted")
  /\ UNCHANGED << registered, gameRoom, utcNow, hub >>
  /\ UNCHANGED jsVars

\* GameManager.TickAsync: _rooms.Values.ToList() holds the room
TickRooms ==
  /\ At(TickThread, "idle")
  /\ registered
  /\ calls' = Goto(TickThread, "tick.expired")
  /\ UNCHANGED << registered, gameRoom, syncRoot, utcNow, hub >>
  /\ UNCHANGED jsVars

\* TickAsync: room.IsExpired
TickExpired ==
  /\ At(TickThread, "tick.expired")
  /\ calls' = IF IsExpired(gameRoom, utcNow) THEN Goto(TickThread, "tick.remove")
              ELSE Goto(TickThread, "tick.lock")
  /\ UNCHANGED << registered, gameRoom, syncRoot, utcNow, hub >>
  /\ UNCHANGED jsVars

\* TickAsync: _rooms.TryRemove of the room found expired
TickRemove ==
  /\ At(TickThread, "tick.remove")
  /\ registered' = FALSE
  /\ calls' = Return(TickThread, "Expired")
  /\ UNCHANGED << gameRoom, syncRoot, utcNow, hub >>
  /\ UNCHANGED jsVars

\* TickAsync: lock (room.SyncRoot)
TickLock ==
  /\ At(TickThread, "tick.lock")
  /\ syncRoot = Null
  /\ syncRoot' = TickThread
  /\ calls' = Goto(TickThread, "tick.winner")
  /\ UNCHANGED << registered, gameRoom, utcNow, hub >>
  /\ UNCHANGED jsVars

\* TickAsync: winnerId and announceWinner
TickWinner ==
  /\ At(TickThread, "tick.winner")
  /\ calls' = [calls EXCEPT
       ![TickThread].pc = "tick.shouldStart",
       ![TickThread].winnerId = gameRoom.WinnerId,
       ![TickThread].announceWinner =
          gameRoom.WinnerId # Null /\ ~gameRoom.WinnerBroadcasted]
  /\ UNCHANGED << registered, gameRoom, syncRoot, utcNow, hub >>
  /\ UNCHANGED jsVars

\* TickAsync: room.ShouldStart, its first operand `_players.Count == 2`
TickShouldStart ==
  /\ At(TickThread, "tick.shouldStart")
  /\ calls' = IF Count(gameRoom) = 2 THEN Goto(TickThread, "tick.notActive")
              ELSE Goto(TickThread, "tick.isActive")
  /\ UNCHANGED << registered, gameRoom, syncRoot, utcNow, hub >>
  /\ UNCHANGED jsVars

\* room.ShouldStart, its second operand `!IsActive`
TickNotActive ==
  /\ At(TickThread, "tick.notActive")
  /\ calls' = IF ~gameRoom.IsActive THEN Goto(TickThread, "tick.reset")
              ELSE Goto(TickThread, "tick.isActive")
  /\ UNCHANGED << registered, gameRoom, syncRoot, utcNow, hub >>
  /\ UNCHANGED jsVars

\* TickAsync: ResetRoom(room)
TickReset(counts) ==
  /\ At(TickThread, "tick.reset")
  /\ gameRoom' = ResetRoom(gameRoom, counts, utcNow)
  /\ calls' = Goto(TickThread, "tick.start")
  /\ UNCHANGED << registered, syncRoot, utcNow, hub >>
  /\ UNCHANGED jsVars

\* TickAsync: room.Start()
TickStart ==
  /\ At(TickThread, "tick.start")
  /\ gameRoom' = Start(gameRoom, utcNow)
  /\ calls' = Goto(TickThread, "tick.isActive")
  /\ UNCHANGED << registered, syncRoot, utcNow, hub >>
  /\ UNCHANGED jsVars

\* TickAsync: !room.IsActive
TickIsActive ==
  /\ At(TickThread, "tick.isActive")
  /\ calls' = IF gameRoom.IsActive THEN Goto(TickThread, "tick.update")
              ELSE Goto(TickThread, "tick.snapshot")
  /\ UNCHANGED << registered, gameRoom, syncRoot, utcNow, hub >>
  /\ UNCHANGED jsVars

\* UpdateRoom, up to the collisions
TickUpdate ==
  /\ At(TickThread, "tick.update")
  /\ \E left \in Leftovers(gameRoom) :
       gameRoom' = Simulate(gameRoom, left, utcNow)
  /\ calls' = Goto(TickThread, "tick.check")
  /\ UNCHANGED << registered, syncRoot, utcNow, hub >>
  /\ UNCHANGED jsVars

\* What the tick knows of the winner after UpdateRoom.
Announced(call, room) ==
  [call EXCEPT
     !.pc = "tick.snapshot",
     !.players = << >>,
     !.winnerId = room.WinnerId,
     !.announceWinner =
        @ \/ (room.WinnerId # Null /\ ~room.WinnerBroadcasted)]

\* The turns of CheckForWinner's loop that are left when `players` are.
Turn(players) == IF Len(players) = 0 THEN "tick.touch" ELSE "tick.opponent"

\* CheckForWinner: `foreach (var player in room.Players)` enumerates the
\* players once, for all its turns
TickCheck ==
  /\ At(TickThread, "tick.check")
  /\ \E order \in Orders(gameRoom.players) :
       calls' = [calls EXCEPT ![TickThread].pc = Turn(order),
                              ![TickThread].players = order]
  /\ UNCHANGED << registered, gameRoom, syncRoot, utcNow, hub >>
  /\ UNCHANGED jsVars

\* CheckForWinner for one player of the loop: room.Players is enumerated
\* again for FirstOrDefault, and an opponent without underlings makes the
\* player the winner of room.Stop and ends the loop
TickOpponent ==
  /\ At(TickThread, "tick.opponent")
  /\ \E order \in Orders(gameRoom.players) :
       IF Beaten(gameRoom, order, Head(calls[TickThread].players))
       THEN /\ gameRoom' = Stop(gameRoom, Head(calls[TickThread].players),
                                utcNow)
            /\ calls' = [calls EXCEPT ![TickThread].pc = "tick.touch",
                                      ![TickThread].players = << >>]
       ELSE /\ calls' = [calls EXCEPT
                 ![TickThread].pc = Turn(Tail(calls[TickThread].players)),
                 ![TickThread].players = Tail(calls[TickThread].players)]
            /\ UNCHANGED gameRoom
  /\ UNCHANGED << registered, syncRoot, utcNow, hub >>
  /\ UNCHANGED jsVars

\* UpdateRoom: room.Touch() after CheckForWinner; then TickAsync reads the
\* winner
TickTouch ==
  /\ At(TickThread, "tick.touch")
  /\ gameRoom' = Touch(gameRoom, utcNow)
  /\ calls' = [calls EXCEPT
                 ![TickThread] = Announced(calls[TickThread], gameRoom')]
  /\ UNCHANGED << registered, syncRoot, utcNow, hub >>
  /\ UNCHANGED jsVars

\* BuildStateSnapshot: room.Players is enumerated
TickSnapshot ==
  /\ At(TickThread, "tick.snapshot")
  /\ calls' = [calls EXCEPT
       ![TickThread].pc = "tick.state",
       ![TickThread].state = << [players |-> DOMAIN gameRoom.players] >>]
  /\ UNCHANGED << registered, gameRoom, syncRoot, utcNow, hub >>
  /\ UNCHANGED jsVars

\* BuildStateSnapshot: the GameStateDto is made of room.IsActive and
\* room.WinnerId; then TickAsync marks the winner it will announce
TickState ==
  /\ At(TickThread, "tick.state")
  /\ calls' = [calls EXCEPT
       ![TickThread].pc = "tick.unlock",
       ![TickThread].state =
          << BuildStateSnapshot(gameRoom,
                                calls[TickThread].state[1].players) >>]
  /\ gameRoom' =
       IF calls[TickThread].announceWinner /\ calls[TickThread].winnerId # Null
       THEN MarkWinnerBroadcasted(gameRoom) ELSE gameRoom
  /\ UNCHANGED << registered, syncRoot, utcNow, hub >>
  /\ UNCHANGED jsVars

\* TickAsync: the end of the lock block
TickUnlock ==
  /\ At(TickThread, "tick.unlock")
  /\ syncRoot' = Null
  /\ calls' = Goto(TickThread, "tick.send")
  /\ UNCHANGED << registered, gameRoom, utcNow, hub >>
  /\ UNCHANGED jsVars

\* A SendAsync that throws ends TickAsync and, with it, the loop of
\* GameLoopService.ExecuteAsync: no tick follows.
Fault(t) ==
  [calls EXCEPT ![t] = [Idle EXCEPT !.pc = "ended", !.result = "Faulted"]]

\* TickAsync: await SendAsync("GameStateUpdated"), which completes (`sent`)
\* or throws
TickSend(sent) ==
  /\ At(TickThread, "tick.send")
  /\ hub' = IF sent
            THEN << [type |-> "GameStateUpdated",
                     data |-> calls[TickThread].state[1]] >>
            ELSE << >>
  /\ calls' = IF ~sent THEN Fault(TickThread)
              ELSE IF calls[TickThread].announceWinner
                      /\ calls[TickThread].winnerId # Null
              THEN Goto(TickThread, "tick.over")
              ELSE Return(TickThread, "Ticked")
  /\ UNCHANGED << registered, gameRoom, syncRoot, utcNow >>
  /\ UNCHANGED jsVars

\* TickAsync: await SendAsync("GameOver"), which completes or throws
TickOver(sent) ==
  /\ At(TickThread, "tick.over")
  /\ hub' = IF sent
            THEN Append(hub, [type |-> "GameOver",
                              data |-> calls[TickThread].winnerId])
            ELSE hub
  /\ calls' = IF sent THEN Return(TickThread, "Ticked") ELSE Fault(TickThread)
  /\ UNCHANGED << registered, gameRoom, syncRoot, utcNow >>
  /\ UNCHANGED jsVars

\* DateTime.UtcNow moves on.
Elapse ==
  /\ utcNow \div ElapseMinutes < MaxElapses
  /\ utcNow' = utcNow + ElapseMinutes
  /\ UNCHANGED << registered, gameRoom, syncRoot, calls, hub >>
  /\ UNCHANGED jsVars

\* The calls of TryJoinRoom by the connections C, their players drawing one
\* of U underling counts.
Joins(C, U) ==
  \/ \E c \in C : JoinLookup(c)
  \/ \E c \in C : JoinCount(c)
  \/ \E c \in C : JoinCheck(c)
  \/ \E c \in C, count \in U : JoinAdd(c, count)
  \/ \E c \in C : JoinTouch(c)

\* The calls of TryRegisterMove by the connections C with directions D.
Moves(C, D) ==
  \/ \E c \in C : MoveLookup(c)
  \/ \E c \in C : MovePlayer(c)
  \/ \E c \in C, direction \in D : MoveInput(c, direction)
  \/ \E c \in C : MoveTouch(c)

\* The calls of HandleDisconnect by the connections C.
Leaves(C) ==
  \/ \E c \in C : LeaveRooms(c)
  \/ \E c \in C : LeaveFind(c)
  \/ \E c \in C : LeaveRemove(c)
  \/ \E c \in C : LeaveTouch(c)
  \/ \E c \in C : LeaveEmpty(c)
  \/ \E c \in C : LeaveInactive(c)
  \/ \E c \in C : LeaveLock(c)
  \/ \E c \in C : LeaveIsEmpty(c)
  \/ \E c \in C : LeaveIsActive(c)
  \/ \E c \in C : LeaveFirst(c)
  \/ \E c \in C : LeaveStop(c)
  \/ \E c \in C : LeaveUnlock(c)
  \/ \E c \in C : LeaveGone(c)
  \/ \E c \in C : LeaveDelete(c)

\* The calls of TryRestartMatch by the connections C, a reset drawing one of
\* U underling counts.
Restarts(C, U) ==
  \/ \E c \in C : RestartLookup(c)
  \/ \E c \in C : RestartLock(c)
  \/ \E c \in C : RestartCount(c)
  \/ \E c \in C, counts \in Draws(gameRoom, U) : RestartReset(c, counts)
  \/ \E c \in C : RestartStart(c)
  \/ \E c \in C : RestartUnlock(c)

\* The calls of TickAsync, each player of a reset drawing one of U underling
\* counts.
TickAsync(U) ==
  \/ TickRooms
  \/ TickExpired
  \/ TickRemove
  \/ TickLock
  \/ TickWinner
  \/ TickShouldStart
  \/ TickNotActive
  \/ \E counts \in Draws(gameRoom, U) : TickReset(counts)
  \/ TickStart
  \/ TickIsActive
  \/ TickUpdate
  \/ TickCheck
  \/ TickOpponent
  \/ TickTouch
  \/ TickSnapshot
  \/ TickState
  \/ TickUnlock
  \/ \E sent \in BOOLEAN : TickSend(sent)
  \/ \E sent \in BOOLEAN : TickOver(sent)

\* The clock as advances of MaxDeltaMs and idle periods.
IdleMs == RoomTimeoutMs + 1
IdlesOf(t) == t \div IdleMs
StepsOf(t) == (t % IdleMs) \div MaxDeltaMs

Init ==
  /\ rooms = << >>
  /\ info = [ c \in Conns |-> [status |-> "idle", roomId |-> Null] ]
  /\ now = 0
  /\ lastTick = 0
  /\ uuid = 0
  /\ crashed = FALSE
  /\ last = Event("listen", Null, Null)
  /\ out = << >>
  /\ InitCs

\* wss.on("connection")
Connect(c) ==
  /\ ~crashed
  /\ UNCHANGED csVars
  /\ info[c].status = "idle"
  /\ info' = [ info EXCEPT ![c] = [status |-> "open", roomId |-> Null] ]
  /\ last' = Event("connection", c, Null)
  /\ out' = << Msg("connected", << c >>, Null, c) >>
  /\ UNCHANGED << rooms, now, lastTick, uuid, crashed >>

\* case "createGame": createRoom() has put the empty room in the registry
\* when createPlayer throws.
CreateGame(c, roomId, displayName, plan) ==
  /\ ~crashed
  /\ UNCHANGED csVars
  /\ IsOpen(c)
  /\ ~HasRoom(rooms, roomId)
  /\ last' = Event("createGame", c, roomId)
  /\ UNCHANGED << now, lastTick >>
  /\ IF TrimThrows(displayName)
     THEN /\ rooms' = Append(rooms, NewRoom(roomId, now))
          /\ crashed' = TRUE
          /\ out' = << >>
          /\ UNCHANGED << info, uuid >>
     ELSE LET player == initializePlayerEntities(
                          createPlayer(c, "blue", uuid), TRUE, plan, uuid)
              room == touchRoom(
                        [ NewRoom(roomId, now) EXCEPT
                            !.players = SetPlayer(@, player) ],
                        now)
              rs == Append(rooms, room)
          IN /\ rooms' = rs
             /\ info' = [ info EXCEPT ![c].roomId = roomId ]
             /\ out' = << Msg("gameCreated", << c >>, roomId,
                              [playerId |-> c, teamColor |-> "blue"]) >>
                       \o sendLobbyUpdate(rs, room)
             /\ uuid' = uuid + 1
             /\ crashed' = FALSE

\* (message.roomId ?? "").toUpperCase(), for an input that is a string or
\* absent.
JoinedRoomId(input) == toUpperCase(IF input = Absent THEN "" ELSE input)

\* A room that takes a third player.
RoomIsFullAtThree(room) == Len(room.players) >= 3

\* room.players.size >= 2
RoomIsFull(room) == Len(room.players) >= 2

\* case "joinGame"
JoinGame(c, input, displayName, plan) ==
  /\ ~crashed
  /\ UNCHANGED csVars
  /\ IsOpen(c)
  /\ last' = Event("joinGame", c, input)
  /\ UNCHANGED << now, lastTick >>
  /\ IF input = NonString
     THEN \* (message.roomId ?? "").toUpperCase is not a function
          /\ crashed' = TRUE
          /\ out' = << >>
          /\ UNCHANGED << rooms, info, uuid >>
     ELSE LET roomId == JoinedRoomId(input)
          IN /\ crashed' = ( /\ HasRoom(rooms, roomId)
                             /\ ~RoomIsFull(GetRoom(rooms, roomId))
                             /\ TrimThrows(displayName) )
             /\ IF ~HasRoom(rooms, roomId)
                THEN /\ out' = << Msg("joinFailed", << c >>, roomId, "RoomNotFound") >>
                     /\ UNCHANGED << rooms, info, uuid >>
                ELSE IF RoomIsFull(GetRoom(rooms, roomId))
                THEN /\ out' = << Msg("joinFailed", << c >>, roomId, "RoomFull") >>
                     /\ UNCHANGED << rooms, info, uuid >>
                ELSE IF TrimThrows(displayName)
                THEN \* createPlayer throws before the room is changed
                     /\ out' = << >>
                     /\ UNCHANGED << rooms, info, uuid >>
                ELSE LET old == GetRoom(rooms, roomId)
                         team == IF Len(old.players) = 0 THEN "blue" ELSE "red"
                         player == initializePlayerEntities(
                                     createPlayer(c, team, uuid),
                                     team = "blue", plan, uuid)
                         room == touchRoom(
                                   [ old EXCEPT !.players = SetPlayer(@, player) ],
                                   now)
                         rs == PutRoom(rooms, room)
                     IN /\ rooms' = rs
                        /\ info' = [ info EXCEPT ![c].roomId = roomId ]
                        /\ uuid' = uuid + 1
                        /\ out' = << Msg("joinedGame", << c >>, roomId,
                                         [playerId |-> c, teamColor |-> team]) >>
                                  \o sendLobbyUpdate(rs, room)

\* A leaveGame handler that keeps info.roomId.
LeaveGameKeepsRoom(c) ==
  /\ ~crashed
  /\ UNCHANGED csVars
  /\ IsOpen(c)
  /\ rooms' = handleDisconnect(rooms, c, info[c].roomId, now)
  /\ last' = Event("leaveGame", c, info[c].roomId)
  /\ out' = << >>
  /\ UNCHANGED << info, now, lastTick, uuid, crashed >>

\* case "leaveGame"
LeaveGame(c) ==
  /\ ~crashed
  /\ UNCHANGED csVars
  /\ IsOpen(c)
  /\ rooms' = handleDisconnect(rooms, c, info[c].roomId, now)
  /\ info' = [ info EXCEPT ![c].roomId = Null ]
  /\ last' = Event("leaveGame", c, info[c].roomId)
  /\ out' = << >>
  /\ UNCHANGED << now, lastTick, uuid, crashed >>

\* ws.on("close")
Close(c) ==
  /\ ~crashed
  /\ UNCHANGED csVars
  /\ IsOpen(c)
  /\ rooms' = handleDisconnect(rooms, c, info[c].roomId, now)
  /\ info' = [ info EXCEPT ![c].status = "closed" ]
  /\ last' = Event("close", c, info[c].roomId)
  /\ out' = << >>
  /\ UNCHANGED << now, lastTick, uuid, crashed >>

\* A restartGame guard that asks only for the room.
RestartIgnoredIfMissing(rs, roomId) == ~HasRoom(rs, roomId)

\* Whether the restartGame handler returns at its guard.
RestartIgnored(rs, roomId) ==
  ~HasRoom(rs, roomId) \/ Len(GetRoom(rs, roomId).players) < 2

\* A restart that keeps the recorded winner.
RestartedKeepsWinner(room, plans, group, t) ==
  [ resetRoom(room, plans, group, t) EXCEPT !.isActive = TRUE ]

\* The room after the restartGame handler's four statements on it.
Restarted(room, plans, group, t) ==
  [ resetRoom([ room EXCEPT !.winnerId = Null, !.winnerBroadcasted = FALSE ],
              plans, group, t)
    EXCEPT !.isActive = TRUE ]

\* case "restartGame"
RestartGame(c, plans) ==
  /\ ~crashed
  /\ UNCHANGED csVars
  /\ IsOpen(c)
  /\ last' = Event("restartGame", c, info[c].roomId)
  /\ UNCHANGED << info, now, lastTick, crashed >>
  /\ IF RestartIgnored(rooms, info[c].roomId)
     THEN /\ out' = << >>
          /\ UNCHANGED << rooms, uuid >>
     ELSE LET old == GetRoom(rooms, info[c].roomId)
              room == Restarted(old, plans, uuid, now)
              rs == PutRoom(rooms, room)
          IN /\ rooms' = rs
             /\ uuid' = uuid + Len(old.players)
             /\ out' = broadcastRoom(rs, room.id, "matchRestarted", Null)

\* A move handler that keeps a direction the tick has yet to replace.
MoveQueued(c, input) ==
  /\ ~crashed
  /\ UNCHANGED csVars
  /\ IsOpen(c)
  /\ last' = Event("move", c, input)
  /\ UNCHANGED << info, now, lastTick, uuid, crashed >>
  /\ IF ~HasRoom(rooms, info[c].roomId)
        \/ ~HasPlayer(GetRoom(rooms, info[c].roomId), c)
     THEN /\ out' = << >>
          /\ UNCHANGED rooms
     ELSE LET old == GetRoom(rooms, info[c].roomId)
              k == IndexOfPlayer(old.players, c, 1)
              direction == IF old.players[k].pendingDirection # "none"
                           THEN old.players[k].pendingDirection
                           ELSE IF input = Absent THEN "none" ELSE input
              room == touchRoom(
                        [ old EXCEPT !.players[k].pendingDirection = direction ],
                        now)
              rs == PutRoom(rooms, room)
          IN /\ rooms' = rs
             /\ out' = broadcastRoom(rs, room.id, "playerMoved",
                                     [playerId |-> c, direction |-> direction])

\* case "move"
Move(c, input) ==
  /\ ~crashed
  /\ UNCHANGED csVars
  /\ IsOpen(c)
  /\ last' = Event("move", c, input)
  /\ UNCHANGED << info, now, lastTick, uuid, crashed >>
  /\ IF ~HasRoom(rooms, info[c].roomId)
        \/ ~HasPlayer(GetRoom(rooms, info[c].roomId), c)
     THEN /\ out' = << >>
          /\ UNCHANGED rooms
     ELSE LET old == GetRoom(rooms, info[c].roomId)
              k == IndexOfPlayer(old.players, c, 1)
              direction == IF input = Absent THEN "none" ELSE input
              room == touchRoom(
                        [ old EXCEPT !.players[k].pendingDirection = direction ],
                        now)
              rs == PutRoom(rooms, room)
          IN /\ rooms' = rs
             /\ out' = broadcastRoom(rs, room.id, "playerMoved",
                                     [playerId |-> c, direction |-> direction])

\* A requestState handler that answers a missing room with an error.
RequestStateOrError(c) ==
  /\ ~crashed
  /\ UNCHANGED csVars
  /\ IsOpen(c)
  /\ last' = Event("requestState", c, info[c].roomId)
  /\ out' = IF ~HasRoom(rooms, info[c].roomId)
            THEN << Msg("error", << c >>, info[c].roomId, "RoomNotFound") >>
            ELSE << Msg("gameStateUpdated", << c >>, info[c].roomId,
                        buildStateSnapshot(GetRoom(rooms, info[c].roomId), now)) >>
  /\ UNCHANGED << rooms, info, now, lastTick, uuid, crashed >>

\* case "requestState"
RequestState(c) ==
  /\ ~crashed
  /\ UNCHANGED csVars
  /\ IsOpen(c)
  /\ last' = Event("requestState", c, info[c].roomId)
  /\ out' = IF ~HasRoom(rooms, info[c].roomId) THEN << >>
            ELSE << Msg("gameStateUpdated", << c >>, info[c].roomId,
                        buildStateSnapshot(GetRoom(rooms, info[c].roomId), now)) >>
  /\ UNCHANGED << rooms, info, now, lastTick, uuid, crashed >>

\* case "ping": message.ts ?? nowMs()
Ping(c, ts) ==
  /\ ~crashed
  /\ UNCHANGED csVars
  /\ IsOpen(c)
  /\ last' = Event("ping", c, ts)
  /\ out' = << Msg("pong", << c >>, Null,
                   [ts |-> IF ts = Absent THEN now ELSE PingTs]) >>
  /\ UNCHANGED << rooms, info, now, lastTick, uuid, crashed >>

\* A frame of RawInputs: JSON.parse throws and the handler returns, or the
\* switch takes its default case, or reading the type of null throws.
Unhandled(c, raw) ==
  /\ ~crashed
  /\ UNCHANGED csVars
  /\ IsOpen(c)
  /\ last' = Event("message", c, raw)
  /\ out' = << >>
  /\ crashed' = TypeThrows(raw)
  /\ UNCHANGED << rooms, info, now, lastTick, uuid >>

\* ----------------------------------------------------------------- tick
\* A loop body that announces the winner before it sends the snapshot.
TickSteppedOverFirst(acc, stepped, t) ==
  LET announce == stepped.room.winnerId # Null
                  /\ ~stepped.room.winnerBroadcasted
      final == IF announce
               THEN [ stepped.room EXCEPT !.winnerBroadcasted = TRUE ]
               ELSE stepped.room
      recipients == Recipients(final.players, 1, info)
  IN IF stepped.threw
     THEN [ acc EXCEPT !.rooms = Append(@, stepped.room), !.threw = TRUE ]
     ELSE [ acc EXCEPT
              !.rooms = Append(@, final),
              !.random = @ \/ stepped.random,
              !.out = @ \o (IF announce
                            THEN << Msg("gameOver", recipients, final.id,
                                        final.winnerId) >>
                            ELSE << >>)
                        \o << Msg("gameStateUpdated", recipients, final.id,
                                  buildStateSnapshot(stepped.room, t)) >> ]

\* The end of one pass of the tick callback's loop body, for an active room
\* with the outcome `stepped` of updateRoom.
TickStepped(acc, stepped, t) ==
  LET announce == stepped.room.winnerId # Null
                  /\ ~stepped.room.winnerBroadcasted
      final == IF announce
               THEN [ stepped.room EXCEPT !.winnerBroadcasted = TRUE ]
               ELSE stepped.room
      recipients == Recipients(final.players, 1, info)
  IN IF stepped.threw
     THEN [ acc EXCEPT !.rooms = Append(@, stepped.room), !.threw = TRUE ]
     ELSE [ acc EXCEPT
              !.rooms = Append(@, final),
              !.random = @ \/ stepped.random,
              !.out = @ \o << Msg("gameStateUpdated", recipients, final.id,
                                  buildStateSnapshot(stepped.room, t)) >>
                        \o (IF announce
                            THEN << Msg("gameOver", recipients, final.id,
                                        final.winnerId) >>
                            ELSE << >>) ]

\* A loop body that counts the snapshot of an idle room as activity.
TickStartedTouches(acc, started, deltaMs, nudge, fallback, t) ==
  IF ~started.isActive
  THEN [ acc EXCEPT
           !.rooms = Append(@, touchRoom(started, t)),
           !.out = @ \o << Msg("gameStateUpdated",
                               Recipients(started.players, 1, info),
                               started.id,
                               buildStateSnapshot(started, t)) >> ]
  ELSE TickStepped(acc, updateRoom(started, deltaMs, nudge, fallback, t), t)

\* One pass of the loop body after the shouldStart block, which left the
\* room as `started`.
TickStarted(acc, started, deltaMs, nudge, fallback, t) ==
  IF ~started.isActive
  THEN [ acc EXCEPT
           !.rooms = Append(@, started),
           !.out = @ \o << Msg("gameStateUpdated",
                               Recipients(started.players, 1, info),
                               started.id,
                               buildStateSnapshot(started, t)) >> ]
  ELSE TickStepped(acc, updateRoom(started, deltaMs, nudge, fallback, t), t)

\* One pass of the tick callback's loop body over `room`.  `acc` carries
\* the registry built so far, the messages sent, the id groups used,
\* whether randomUnitVector() was consulted and whether the callback threw.
TickRoom(acc, room, deltaMs, plans, nudge, fallback, t) ==
  IF acc.threw THEN [ acc EXCEPT !.rooms = Append(@, room) ]
  ELSE IF isExpired(room, t) THEN acc
  ELSE IF shouldStart(room)
  THEN TickStarted(
         [ acc EXCEPT !.uuid = @ + Len(room.players) ],
         [ resetRoom(room, plans, acc.uuid, t) EXCEPT !.isActive = TRUE ],
         deltaMs, nudge, fallback, t)
  ELSE TickStarted(acc, room, deltaMs, nudge, fallback, t)

\* for (const room of rooms.values())
RECURSIVE TickLoop(_, _, _, _, _, _, _, _)
TickLoop(acc, rs, k, deltaMs, plans, nudges, fallback, t) ==
  IF k > Len(rs) THEN acc
  ELSE TickLoop(
         TickRoom(acc, rs[k], deltaMs, plans[rs[k].id], nudges[rs[k].id],
                  fallback, t),
         rs, k + 1, deltaMs, plans, nudges, fallback, t)

\* The unit vector a tick's randomUnitVector() calls return when the model
\* draws no other.
DefaultFallback == Vec(Unit, 0)

\* The rooms of registry rs a tick at time t starts, and those it steps.
StartIds(rs, t) ==
  { rs[k].id : k \in { j \in 1..Len(rs) :
      ~isExpired(rs[j], t) /\ shouldStart(rs[j]) } }
StepIds(rs, t) ==
  { rs[k].id : k \in { j \in 1..Len(rs) :
      ~isExpired(rs[j], t) /\ (shouldStart(rs[j]) \/ rs[j].isActive) } }

NoPlans == << >>

\* The loop of the setInterval callback that reads the clock at `current`.
TickResult(current, startPlans, stepNudges, fallback) ==
  LET elapsed == current - lastTick
      deltaMs == IF elapsed > MaxDeltaMs THEN MaxDeltaMs ELSE elapsed
      plans == [ id \in RoomIds |->
                   IF id \in DOMAIN startPlans THEN startPlans[id] ELSE NoPlans ]
      nudges == [ id \in RoomIds |->
                    IF id \in DOMAIN stepNudges THEN stepNudges[id] ELSE NoNudge ]
  IN TickLoop(
       [ rooms |-> << >>, out |-> << >>, uuid |-> uuid,
         random |-> FALSE, threw |-> FALSE ],
       rooms, 1, deltaMs, plans, nudges, fallback, current)

TickApply(current, res) ==
  /\ rooms' = res.rooms
  /\ out' = res.out
  /\ uuid' = res.uuid
  /\ crashed' = res.threw
  /\ now' = current
  /\ lastTick' = current
  /\ last' = Event("tick", Null, current - lastTick)
  /\ UNCHANGED info

\* The outcomes of a tick whose loop gives `res` with the default vector:
\* one when randomUnitVector() was never consulted, else one per vector.
TickDrawn(current, res, startPlans, stepNudges) ==
  IF ~res.random THEN TickApply(current, res)
  ELSE \E fallback \in UnitVectors :
         TickApply(current,
                   TickResult(current, startPlans, stepNudges, fallback))

\* The setInterval callback, run `elapsed` ms after the one before it.
Tick(elapsed, startPlans, stepNudges) ==
  /\ ~crashed
  /\ UNCHANGED csVars
  /\ TickDrawn(now + elapsed,
               TickResult(now + elapsed, startPlans, stepNudges, DefaultFallback),
               startPlans, stepNudges)

\* ------------------------------------------------------- specifications
\* The messages of connections C, of which H send createGame and G send
\* joinGame, with room codes R, spawn draws P, move inputs M, join inputs J
\* and display names DisplayNames for the clients' and Math.random's
\* choices, while fewer than maxUuid id groups are out.
Messages(C, H, G, R, P, M, J, maxUuid) ==
  \/ \E c \in C : Connect(c)
  \/ \E c \in H, roomId \in R, displayName \in DisplayNames, plan \in P :
       uuid + 1 <= maxUuid /\ CreateGame(c, roomId, displayName, plan)
  \/ \E c \in G, input \in J, displayName \in DisplayNames, plan \in P :
       uuid + 1 <= maxUuid /\ JoinGame(c, input, displayName, plan)
  \/ \E c \in C : LeaveGame(c)
  \/ \E c \in C, plans \in P \X P :
       uuid + 2 <= maxUuid /\ RestartGame(c, plans)
  \/ \E c \in C, input \in M : Move(c, input)

\* Sockets closing and clients asking for the state.
Others(C) ==
  \/ \E c \in C : Close(c)
  \/ \E c \in C : RequestState(c)

\* Pings with the timestamps T and frames W that the switch has no case for,
\* from the connections C.
Frames(C, T, W) ==
  \/ \E c \in C, ts \in T : Ping(c, ts)
  \/ \E c \in C, raw \in W : Unhandled(c, raw)

\* A tick `elapsed` ms after the last, with spawn draws P and nudges N.
Ticks(elapsed, P, N) ==
  \E startPlans \in [StartIds(rooms, now + elapsed) -> P \X P],
     stepNudges \in [StepIds(rooms, now + elapsed) -> N] :
    Tick(elapsed, startPlans, stepNudges)

\* Two players and one room, played until a leader has eaten a swarm.
MatchConns == {"c1", "c2"}
MatchHosts == {"c1"}
MatchGuests == {"c2"}
MatchRooms == {"AAAAAA"}
MatchPlans == { plan \in SpawnPlans : Len(plan) < MaxUnderlings }
MatchMoves == {"Left"}
MatchJoins == {"AAAAAA"}
NextMatch ==
  \/ Messages(MatchConns, MatchHosts, MatchGuests, MatchRooms, MatchPlans,
              MatchMoves, MatchJoins, MaxUuid)
  \/ StepsOf(now) < MaxSteps /\ Ticks(MaxDeltaMs, MatchPlans, {NoNudge})
SpecMatch == Init /\ [][NextMatch]_vars

\* The lobby: three connections and one room code, with inputs that are
\* absent, unknown or no strings, over one loop step and one idle period.
LobbyRooms == {"BBBBBB"}
LobbyPlans == { plan \in SpawnPlans : Len(plan) = MaxUnderlings }
LobbyMoves == {"Left", NonString}
LobbyJoins == {"bbbbbb", "ZZZZZZ", NonString}
LobbyFramers == {"c1"}
LobbyFrames == {"null", "unknown"}
Next ==
  \/ Messages(Conns, Conns, Conns, LobbyRooms, LobbyPlans, LobbyMoves,
              LobbyJoins, LobbyUuid)
  \/ Others(Conns)
  \/ Frames(LobbyFramers, PingInputs, LobbyFrames)
  \/ StepsOf(now) < LobbySteps /\ Ticks(MaxDeltaMs, LobbyPlans, NudgeDraws)
  \/ IdlesOf(now) < MaxIdles /\ Ticks(IdleMs, LobbyPlans, NudgeDraws)
Spec == Init /\ [][Next]_vars

\* Two connections and both room codes: a connection that is in a room can
\* ask for another one, and a tick can find two rooms in the registry.
RoomsConns == {"c1", "c2"}
RoomsPlans == { plan \in SpawnPlans : Len(plan) = MinUnderlings }
RoomsMoves == {NonString}
RoomsHosts == {"c1"}
RoomsGuests == {"c2"}
RoomsJoins == {"aaaaaa"}
RoomsPings == {Absent}
RoomsFrames == {"null", "garbage", "5"}
NextRooms ==
  \/ Messages(RoomsConns, RoomsHosts, RoomsGuests, RoomIds, RoomsPlans,
              RoomsMoves, RoomsJoins, RoomsUuid)
  \/ Others(RoomsConns)
  \/ Frames(RoomsGuests, RoomsPings, RoomsFrames)
  \/ StepsOf(now) < RoomsSteps /\ Ticks(MaxDeltaMs, RoomsPlans, {NoNudge})
SpecRooms == Init /\ [][NextRooms]_vars

\* One match whose underlings head for the top wall one behind the other,
\* with leaders steered by names in other letter cases.
ArenaPlans ==
  { << Draw(0, -60, Vec(0, -Unit)), Draw(0, 0, Vec(0, -Unit)),
       Draw(59, 0, Vec(Unit, 0)) >> }
ArenaMoves == {"UP", "right"}
ArenaJoins == {"AAAAAA"}
NextArena ==
  \/ Messages(MatchConns, MatchHosts, MatchGuests, MatchRooms, ArenaPlans,
              ArenaMoves, ArenaJoins, ArenaUuid)
  \/ StepsOf(now) < ArenaSteps /\ Ticks(MaxDeltaMs, ArenaPlans, {NoNudge})
SpecArena == Init /\ [][NextArena]_vars

\* A duel: each swarm heads for the other leader, above and below the line the
\* leaders move on, c1 steering right and c2 left.
DuelPlans ==
  { << Draw(59, 13, Vec(Unit, 0)), Draw(59, 13, Vec(Unit, 0)),
       Draw(59, 13, Vec(Unit, 0)) >>,
    << Draw(-60, -13, Vec(-Unit, 0)), Draw(-60, -13, Vec(-Unit, 0)),
       Draw(-60, -13, Vec(-Unit, 0)) >> }
NextDuel ==
  \/ \E c \in MatchConns : Connect(c)
  \/ \E c \in MatchHosts, roomId \in MatchRooms,
        displayName \in DisplayNames, plan \in DuelPlans :
       uuid + 1 <= DuelUuid /\ CreateGame(c, roomId, displayName, plan)
  \/ \E c \in MatchGuests, input \in MatchJoins,
        displayName \in DisplayNames, plan \in DuelPlans :
       uuid + 1 <= DuelUuid /\ JoinGame(c, input, displayName, plan)
  \/ \E c \in MatchHosts : Move(c, "Right")
  \/ \E c \in MatchGuests : Move(c, "Left")
  \/ StepsOf(now) < DuelSteps /\ Ticks(MaxDeltaMs, DuelPlans, {NoNudge})
SpecDuel == Init /\ [][NextDuel]_vars

\* Three connections join the room that a fourth has made.
JoinsHosts == {"h"}
JoinsGuests == {"j1", "j2", "j3"}
NextJoins ==
  \/ \E c \in JoinsHosts, count \in UnderlingCounts : CreateRoom(c, count)
  \/ Joins(JoinsGuests, UnderlingCounts)
SpecJoins == Init /\ [][NextJoins]_vars

\* A host that makes the room, steers and leaves, a guest that joins, and
\* the game loop.
LockHosts == {"h"}
LockGuests == {"j1"}
LockMoves == {"Up"}
NextLock ==
  \/ \E c \in LockHosts, count \in UnderlingCounts : CreateRoom(c, count)
  \/ Joins(LockGuests, UnderlingCounts)
  \/ Moves(LockHosts, LockMoves)
  \/ Leaves(LockHosts)
  \/ TickAsync(UnderlingCounts)
  \/ Elapse
SpecLock == Init /\ [][NextLock]_vars

\* A host that makes the room and asks for rematches, a guest that joins,
\* the game loop and the clock.
RematchHosts == {"h"}
RematchGuests == {"j1"}
NextRematch ==
  \/ \E c \in RematchHosts, count \in UnderlingCounts : CreateRoom(c, count)
  \/ Joins(RematchGuests, UnderlingCounts)
  \/ Restarts(RematchHosts, UnderlingCounts)
  \/ TickAsync(UnderlingCounts)
  \/ Elapse
SpecRematch == Init /\ [][NextRematch]_vars

\* A host and a guest that both leave, the guest joining again, the game
\* loop and the clock; of the counts a player can draw, the least is followed.
ForfeitConns == {"h", "j1"}
ForfeitCounts == {MinUnderlings}
NextForfeit ==
  \/ \E c \in RematchHosts, count \in ForfeitCounts : CreateRoom(c, count)
  \/ Joins(RematchGuests, ForfeitCounts)
  \/ Leaves(ForfeitConns)
  \/ TickAsync(ForfeitCounts)
  \/ Elapse
SpecForfeit == Init /\ [][NextForfeit]_vars

\* ----------------------------------------------------------- properties
\* The places in a message sequence of the messages of one type to one room.
Sent(msgs, type, roomId) ==
  { i \in 1..Len(msgs) : msgs[i].type = type /\ msgs[i].roomId = roomId }

\* The players of a room whose opponent has no underling left.
Winners(room) ==
  { k \in 1..Len(room.players) :
      \E j \in 1..Len(room.players) :
        j # k /\ Len(room.players[j].underlings) = 0 }

\* A room the tick at time t runs the simulation step on.
Stepped(room, t) ==
  ~isExpired(room, t) /\ (room.isActive \/ shouldStart(room))

\* One gameOver to the room, carrying its winner.
OneGameOver(msgs, room) ==
  /\ Cardinality(Sent(msgs, "gameOver", room.id)) = 1
  /\ \A i \in Sent(msgs, "gameOver", room.id) : msgs[i].data = room.winnerId

WinEndsMatch ==
  (last'.op = "tick" /\ ~crashed') =>
    \A k \in 1..Len(rooms) :
      /\ ( /\ Stepped(rooms[k], now')
           /\ HasRoom(rooms', rooms[k].id)
           /\ Winners(GetRoom(rooms', rooms[k].id)) # {} ) =>
           LET after == GetRoom(rooms', rooms[k].id)
           IN /\ ~after.isActive
              /\ \E w \in Winners(after) :
                   after.winnerId = after.players[w].connectionId
              /\ after.winnerBroadcasted
              /\ OneGameOver(out', after)
      /\ (rooms[k].winnerId # Null /\ rooms[k].winnerBroadcasted) =>
           Sent(out', "gameOver", rooms[k].id) = {}

\* C1: a tick whose simulation step leaves some player's opponent without
\* underlings ends with the room inactive, the surviving player recorded as
\* winner and exactly one gameOver for that winner sent; a tick sends no
\* gameOver to a room whose win has been announced.
C1_WinAnnouncedOnce == [][WinEndsMatch]_vars

C1_Witness ==
  /\ last.op = "tick"
  /\ \E k \in 1..Len(rooms) :
       /\ Winners(rooms[k]) # {}
       /\ rooms[k].winnerId # Null
       /\ ~rooms[k].isActive
       /\ OneGameOver(out, rooms[k])

WinnerAnnounced ==
  (last'.op = "tick" /\ ~crashed') =>
    \A k \in 1..Len(rooms) :
      ( /\ ~isExpired(rooms[k], now')
        /\ HasRoom(rooms', rooms[k].id)
        /\ GetRoom(rooms', rooms[k].id).winnerId # Null
        /\ (rooms[k].winnerId = Null \/ ~rooms[k].winnerBroadcasted) ) =>
        OneGameOver(out', GetRoom(rooms', rooms[k].id))

\* C2: a tick that processes a room whose winner is newly set, by the win
\* check of this tick or by a forfeit since the last one, sends exactly one
\* gameOver carrying that winner to the room.
C2_EveryWinnerAnnounced == [][WinnerAnnounced]_vars

\* C3: no room is active while it has a winner recorded.
C3_NoActiveWinner ==
  \A k \in 1..Len(rooms) : ~(rooms[k].isActive /\ rooms[k].winnerId # Null)

C3_Witness ==
  /\ last.op = "tick"
  /\ \E k \in 1..Len(rooms) :
       /\ Len(rooms[k].players) = 2
       /\ Winners(rooms[k]) # {}
       /\ rooms[k].winnerId # Null
       /\ rooms[k].winnerBroadcasted
       /\ Sent(out, "gameOver", rooms[k].id) = {}

AtMostTwoPlayers == \A k \in 1..Len(rooms) : Len(rooms[k].players) <= 2

JoinFullRejected ==
  ( /\ last'.op = "joinGame"
    /\ last'.arg # NonString
    /\ HasRoom(rooms, JoinedRoomId(last'.arg))
    /\ Len(GetRoom(rooms, JoinedRoomId(last'.arg)).players) >= 2 ) =>
    /\ out' = << Msg("joinFailed", << last'.conn >>,
                     JoinedRoomId(last'.arg), "RoomFull") >>
    /\ rooms' = rooms

\* C4: no room ever holds more than two players, and a joinGame aimed at a
\* room that has two is answered with joinFailed/RoomFull and changes no
\* room.
C4_RoomFull == []AtMostTwoPlayers /\ [][JoinFullRejected]_vars

C4_Witness ==
  /\ last.op = "joinGame"
  /\ Len(out) = 1
  /\ out[1].type = "joinFailed"
  /\ out[1].data = "RoomFull"
  /\ \E k \in 1..Len(rooms) :
       /\ rooms[k].id = out[1].roomId
       /\ Len(rooms[k].players) = 2
       /\ ~HasPlayer(rooms[k], last.conn)

LeaverForfeits ==
  ( /\ last'.op \in {"leaveGame", "close"}
    /\ HasRoom(rooms, info[last'.conn].roomId)
    /\ GetRoom(rooms, info[last'.conn].roomId).isActive
    /\ HasPlayer(GetRoom(rooms, info[last'.conn].roomId), last'.conn) ) =>
    /\ HasRoom(rooms', info[last'.conn].roomId)
    /\ LET after == GetRoom(rooms', info[last'.conn].roomId)
       IN /\ ~after.isActive
          /\ Len(after.players) = 1
          /\ after.players[1].connectionId # last'.conn
          /\ after.winnerId = after.players[1].connectionId

\* C5: when a player of an active room leaves or disconnects, the room stays
\* in the registry, becomes inactive and records the one remaining player as
\* its winner.
C5_LeaverForfeits == [][LeaverForfeits]_vars

C5_Witness ==
  /\ last.op = "close"
  /\ uuid = 4
  /\ \E k \in 1..Len(rooms) :
       /\ rooms[k].id = last.arg
       /\ ~rooms[k].isActive
       /\ Len(rooms[k].players) = 1
       /\ rooms[k].winnerId = rooms[k].players[1].connectionId
       /\ rooms[k].winnerId # last.conn

FinishedStays ==
  \A k \in 1..Len(rooms) :
    (rooms[k].winnerId # Null /\ HasRoom(rooms', rooms[k].id)) =>
      LET after == GetRoom(rooms', rooms[k].id)
      IN /\ last'.op = "tick" =>
              (~after.isActive /\ after.winnerId = rooms[k].winnerId)
         /\ after.isActive =>
              /\ last'.op = "restartGame"
              /\ info[last'.conn].roomId = rooms[k].id
              /\ Len(rooms[k].players) = 2

\* C6: a tick leaves a room that has a winner inactive with the same winner,
\* and such a room becomes active only by a restartGame handled for it while
\* it has two players.
C6_FinishedUntilRestart == [][FinishedStays]_vars

C6_Witness ==
  /\ last.op = "tick"
  /\ \E k \in 1..Len(rooms) :
       /\ rooms[k].winnerId # Null
       /\ ~rooms[k].isActive
       /\ Len(rooms[k].players) = 2
       /\ Winners(rooms[k]) = {}

\* The underlings of `after` are 3 to 5 per player, all with ids drawn after
\* the id groups `group` and below.
Respawned(after, group) ==
  \A p \in 1..Len(after.players) :
    /\ Len(after.players[p].underlings) >= MinUnderlings
    /\ Len(after.players[p].underlings) <= MaxUnderlings
    /\ \A i \in 1..Len(after.players[p].underlings) :
         after.players[p].underlings[i].id >= EntityId(group, 0)

\* The tick starts every room it processes that satisfies Waiting.
StartsRooms(Waiting(_)) ==
  (last'.op = "tick" /\ ~crashed') =>
    \A k \in 1..Len(rooms) :
      (~isExpired(rooms[k], now') /\ Waiting(rooms[k])) =>
        /\ HasRoom(rooms', rooms[k].id)
        /\ GetRoom(rooms', rooms[k].id).isActive
        /\ Respawned(GetRoom(rooms', rooms[k].id), uuid)

TwoInactive(room) == Len(room.players) = 2 /\ ~room.isActive

TwoInactiveNoWinner(room) == TwoInactive(room) /\ room.winnerId = Null

\* C7 (as stated): every tick starts each non-expired room that has two
\* players and is not active: it is active after the tick, with fresh
\* underlings for both players.
C7_StartsEveryInactivePair == [][StartsRooms(TwoInactive)]_vars

\* C7 (amended): every tick starts each non-expired room that has two
\* players, is not active and has no winner recorded.
C7_StartsWaitingPair == [][StartsRooms(TwoInactiveNoWinner)]_vars

C7_Witness ==
  /\ last.op = "tick"
  /\ now = MaxDeltaMs
  /\ uuid = 4
  /\ \E k \in 1..Len(rooms) :
       /\ rooms[k].isActive
       /\ rooms[k].lastActivity = now
       /\ Respawned(rooms[k], 2)

\* The spawn point of a team's leader, in parts.
SpawnX(teamColor) ==
  IF teamColor = "blue" THEN 240 * Scale ELSE 720 * Scale
SpawnY == 320 * Scale

RestartRespawns ==
  ( /\ last'.op = "restartGame"
    /\ HasRoom(rooms, info[last'.conn].roomId)
    /\ Len(GetRoom(rooms, info[last'.conn].roomId).players) = 2 ) =>
    /\ HasRoom(rooms', info[last'.conn].roomId)
    /\ LET after == GetRoom(rooms', info[last'.conn].roomId)
       IN /\ after.isActive
          /\ after.winnerId = Null
          /\ ~after.winnerBroadcasted
          /\ Len(after.players) = 2
          /\ \A p \in 1..Len(after.players) :
               /\ after.players[p].leader.x = SpawnX(after.players[p].teamColor)
               /\ after.players[p].leader.y = SpawnY
               /\ after.players[p].leader.vx = 0
               /\ after.players[p].leader.vy = 0
          /\ Respawned(after, uuid)
          /\ Len(out') = 1
          /\ out'[1].type = "matchRestarted"
          /\ out'[1].roomId = after.id

\* C8: a restartGame handled while the sender's room has two players leaves
\* the room active with no winner and winnerBroadcasted false, each leader
\* at its team's spawn point with zero velocity, 3 to 5 fresh underlings per
\* player, and sends one matchRestarted to the room.
C8_RestartRespawns == [][RestartRespawns]_vars

C8_Witness ==
  /\ last.op = "restartGame"
  /\ now >= MaxDeltaMs
  /\ Len(out) = 1
  /\ out[1].type = "matchRestarted"
  /\ \E k \in 1..Len(rooms) :
       /\ rooms[k].id = last.arg
       /\ rooms[k].isActive
       /\ rooms[k].winnerId = Null

RestartNoOp ==
  ( /\ last'.op = "restartGame"
    /\ HasRoom(rooms, info[last'.conn].roomId)
    /\ Len(GetRoom(rooms, info[last'.conn].roomId).players) < 2 ) =>
    /\ rooms' = rooms
    /\ out' = << >>

\* C9: a restartGame handled while the sender's room has fewer than two
\* players changes no room and sends nothing.
C9_RestartNeedsTwo == [][RestartNoOp]_vars

C9_Witness ==
  /\ last.op = "restartGame"
  /\ out = << >>
  /\ \E k \in 1..Len(rooms) :
       /\ rooms[k].id = last.arg
       /\ Len(rooms[k].players) = 1
       /\ rooms[k].winnerId # Null

SecondLeave ==
  /\ last'.op = "leaveGame" => info'[last'.conn].roomId = Null
  /\ \A c \in Conns :
       (info[c].roomId = Null /\ info'[c].roomId # Null) =>
         (last'.conn = c /\ last'.op \in {"createGame", "joinGame"})
  /\ (last'.op \in {"leaveGame", "close"} /\ info[last'.conn].roomId = Null) =>
       rooms' = rooms

\* C10: a leaveGame leaves the connection with no room until it creates or
\* joins one, and a leaveGame or close of a connection with no room changes
\* no room: a second removal is a no-op.
C10_SecondLeaveNoOp == [][SecondLeave]_vars

C10_Witness ==
  /\ last = Event("close", last.conn, Null)
  /\ \E c \in Conns : info[c].status = "idle"
  /\ \E k \in 1..Len(rooms) :
       /\ Len(rooms[k].players) = 1
       /\ rooms[k].winnerId = rooms[k].players[1].connectionId
       /\ rooms[k].winnerId # last.conn

\* C11: after a connection's socket closes, no room in the registry holds a
\* player whose connectionId is that connection, whatever the connection
\* sent before.  Refuted: createGame overwrites info.roomId without leaving
\* the room the connection is in, and the close handler clears only the room
\* info.roomId names.
C11_ClosedInNoRoom ==
  last.op = "close" =>
    \A k \in 1..Len(rooms) : ~HasPlayer(rooms[k], last.conn)

\* C12: between any two handlers every room of the registry has at least
\* one player, and the leaveGame or close of a room's only player removes
\* the room in that handler.  (No handler follows one that an exception has
\* left: the process has ended.)
EveryRoomHasPlayer ==
  ~crashed => \A k \in 1..Len(rooms) : Len(rooms[k].players) >= 1

LastPlayerGone ==
  ( /\ last'.op \in {"leaveGame", "close"}
    /\ HasRoom(rooms, last'.arg)
    /\ Len(GetRoom(rooms, last'.arg).players) = 1
    /\ HasPlayer(GetRoom(rooms, last'.arg), last'.conn) ) =>
    ~HasRoom(rooms', last'.arg)

C12_NoEmptyRoom == []EveryRoomHasPlayer /\ [][LastPlayerGone]_vars

C12_Witness ==
  /\ last.op \in {"leaveGame", "close"}
  /\ last.arg \in RoomIds
  /\ ~HasRoom(rooms, last.arg)
  /\ Len(rooms) >= 1

\* C13: at the end of every tick every leader and underling of an active or
\* finished room lies within [radius, 960 - radius] by [radius, 640 -
\* radius], entities pushed apart by a collision in that tick included.
\* Refuted: updateRoom resolves collisions after bounceOffWalls, so a push
\* can move an entity that stands at a wall across it.
InArena(entity, radius) ==
  /\ entity.x >= radius * Scale
  /\ entity.x <= (ArenaWidth - radius) * Scale
  /\ entity.y >= radius * Scale
  /\ entity.y <= (ArenaHeight - radius) * Scale

C13_EntitiesInArena ==
  last.op = "tick" =>
    \A k \in 1..Len(rooms) :
      (rooms[k].isActive \/ rooms[k].winnerId # Null) =>
        \A p \in 1..Len(rooms[k].players) :
          /\ InArena(rooms[k].players[p].leader, LeaderRadius)
          /\ \A i \in 1..Len(rooms[k].players[p].underlings) :
               InArena(rooms[k].players[p].underlings[i], UnderlingRadius)

\* The players of a stepped room when updateRoom enters
\* resolveLeaderUnderlingCollisions, no underling having been nudged.
BeforeEating(room, deltaMs) ==
  CollideLeaders(
    resolveUnderlingCollisions(
      MoveLeaders(
        Unflatten(LeaderLoop(room.players, 1).players,
                  MoveUnderlings(FlatUnderlings(room.players, 1), deltaMs,
                                 NoNudge),
                  1, 1),
        deltaMs)))

\* Some underling of players[p] lies under the leader of another player.
UnderOpponent(players, p) ==
  \E o \in 1..Len(players), i \in 1..Len(players[p].underlings) :
    /\ o # p
    /\ Overlap(players[o].leader, players[p].underlings[i],
               (LeaderRadius + UnderlingRadius) * Scale)

\* C14: while a room is active and is not restarted, no player's underling
\* count increases in any step, and a count decreases only in a tick in
\* which the opponent's leader overlaps one of that player's underlings.
SwarmsOnlyEaten ==
  \A k \in 1..Len(rooms) :
    ( /\ rooms[k].isActive
      /\ last'.op # "restartGame"
      /\ HasRoom(rooms', rooms[k].id) ) =>
      \A p \in 1..Len(rooms[k].players) :
        HasPlayer(GetRoom(rooms', rooms[k].id),
                  rooms[k].players[p].connectionId) =>
          LET before == Len(rooms[k].players[p].underlings)
              players == GetRoom(rooms', rooms[k].id).players
              after == Len(players[IndexOfPlayer(players,
                             rooms[k].players[p].connectionId, 1)].underlings)
          IN /\ after <= before
             /\ after < before =>
                  /\ last'.op = "tick"
                  /\ UnderOpponent(BeforeEating(rooms[k], last'.arg), p)

C14_SwarmsOnlyEaten == [][SwarmsOnlyEaten]_vars

C14_Witness ==
  /\ last.op = "tick"
  /\ \E k \in 1..Len(rooms) :
       /\ rooms[k].isActive
       /\ \E p \in 1..Len(rooms[k].players) :
            /\ Len(rooms[k].players[p].underlings) >= 1
            /\ Len(rooms[k].players[p].underlings) < MinUnderlings

\* The ids of a sequence of entities, and all entity ids of a registry.
Ids(entities) == [ i \in 1..Len(entities) |-> entities[i].id ]

RoomEntityIds(room) ==
  UNION { {room.players[p].leader.id}
          \cup { room.players[p].underlings[i].id :
                   i \in 1..Len(room.players[p].underlings) } :
          p \in 1..Len(room.players) }

EntityIds(rs) == UNION { RoomEntityIds(rs[k]) : k \in 1..Len(rs) }

\* Every id in the registry was handed out before the ids still to come.
IdsHandedOut ==
  \A k \in 1..Len(rooms) : \A p \in 1..Len(rooms[k].players) :
    /\ rooms[k].players[p].leader.id < EntityId(uuid, 0)
    /\ \A i \in 1..Len(rooms[k].players[p].underlings) :
         rooms[k].players[p].underlings[i].id < EntityId(uuid, 0)

\* An id that enters the registry in a step is one not handed out before.
NoIdReturns ==
  /\ uuid' >= uuid
  /\ \A id \in EntityIds(rooms') \ EntityIds(rooms) : id >= EntityId(uuid, 0)

\* `kept` is `all` with some entries left out, the order unchanged.
Remains(kept, all) ==
  LET Kept(id) == \E i \in 1..Len(kept) : kept[i] = id
  IN kept = SelectSeq(all, Kept)

\* A tick on an active room only takes underlings out of the lists.
OnlyRemovals ==
  last'.op = "tick" =>
    \A k \in 1..Len(rooms) :
      (rooms[k].isActive /\ HasRoom(rooms', rooms[k].id)) =>
        \A p \in 1..Len(rooms[k].players) :
          Remains(Ids(GetRoom(rooms', rooms[k].id).players[p].underlings),
                  Ids(rooms[k].players[p].underlings))

\* The inner loop body, on a leader of players[p] that overlaps underling i
\* of players[o], takes out that underling and no other.
EatsThatOne(players, p, o, i) ==
  LET eaten == EatStep([players |-> players, random |-> FALSE], p, o, i,
                       DefaultFallback).players
  IN /\ Ids(eaten[o].underlings) =
          SubSeq(Ids(players[o].underlings), 1, i - 1)
          \o SubSeq(Ids(players[o].underlings), i + 1,
                    Len(players[o].underlings))
     /\ \A q \in 1..Len(players) :
          q # o => eaten[q].underlings = players[q].underlings

EatsOne ==
  last'.op = "tick" =>
    \A k \in 1..Len(rooms) :
      rooms[k].isActive =>
        LET players == BeforeEating(rooms[k], last'.arg)
        IN \A p \in 1..Len(players), o \in 1..Len(players) :
             \A i \in 1..Len(players[o].underlings) :
               ( /\ o # p
                 /\ Overlap(players[p].leader, players[o].underlings[i],
                            (LeaderRadius + UnderlingRadius) * Scale) ) =>
                 EatsThatOne(players, p, o, i)

\* C15: each leader-underling overlap resolved in a tick removes exactly
\* that one underling from its owner's list, and the id of a removed
\* underling is in no later state of the room, restarts included: ids that
\* enter the registry are ids crypto.randomUUID() had not handed out.
C15_EatenForGood ==
  []IdsHandedOut /\ [][NoIdReturns /\ OnlyRemovals /\ EatsOne]_vars

C15_Witness ==
  /\ last.op = "tick"
  /\ \E k \in 1..Len(rooms) :
       /\ rooms[k].isActive
       /\ \E p \in 1..Len(rooms[k].players) :
            Len(rooms[k].players[p].underlings) = 1

\* Some underling of players[p] lies under the leader of players[p].
UnderOwnLeader(players, p) ==
  \E i \in 1..Len(players[p].underlings) :
    Overlap(players[p].leader, players[p].underlings[i],
            (LeaderRadius + UnderlingRadius) * Scale)

\* C16: a leader's overlap with an underling of its own player never removes
\* that underling: in a tick on an active room, a player none of whose
\* underlings lies under the opponent's leader keeps all its underlings,
\* also those that lie under its own leader.
OwnSwarmKept ==
  last'.op = "tick" =>
    \A k \in 1..Len(rooms) :
      (rooms[k].isActive /\ HasRoom(rooms', rooms[k].id)) =>
        \A p \in 1..Len(rooms[k].players) :
          ~UnderOpponent(BeforeEating(rooms[k], last'.arg), p) =>
            Ids(GetRoom(rooms', rooms[k].id).players[p].underlings)
              = Ids(rooms[k].players[p].underlings)

C16_OwnSwarmKept == [][OwnSwarmKept]_vars

C16_Witness ==
  /\ last.op = "tick"
  /\ now > MaxDeltaMs
  /\ \E k \in 1..Len(rooms) : \E p \in 1..Len(rooms[k].players) :
       /\ rooms[k].isActive
       /\ UnderOwnLeader(rooms[k].players, p)
       /\ Len(rooms[k].players[p].underlings) >= MinUnderlings

\* A room whose simulation step throws in the tick at time t: a player of
\* it has a pending direction directionToVector cannot read.
Fails(room, t) ==
  /\ Stepped(room, t)
  /\ \E p \in 1..Len(room.players) : Throws(room.players[p].pendingDirection)

\* C17: when the handling of one room throws inside a tick, the same tick
\* still processes every other registered room and the ticks keep running.
\* Refuted: the callback has no try/catch, so the exception leaves the loop
\* and, uncaught, ends the process.
TickSurvives ==
  last'.op = "tick" =>
    /\ ~crashed'
    /\ \A k \in 1..Len(rooms) :
         (~isExpired(rooms[k], now') /\ ~Fails(rooms[k], now')) =>
           Sent(out', "gameStateUpdated", rooms[k].id) # {}

C17_TickSurvivesFailure == [][TickSurvives]_vars

\* The leader velocity a direction value stands for: 160 along the axis of
\* up, down, left and right in any letter case, zero for every other value.
Heading(direction) ==
  CASE direction \in {"up", "UP", "Up"} -> Vec(0, -LeaderSpeed * Scale)
    [] direction \in {"down", "DOWN", "Down"} -> Vec(0, LeaderSpeed * Scale)
    [] direction \in {"left", "LEFT", "Left"} -> Vec(-LeaderSpeed * Scale, 0)
    [] direction \in {"right", "Right"} -> Vec(LeaderSpeed * Scale, 0)
    [] OTHER -> Vec(0, 0)

\* C18: whatever value a move message carried as direction (one of the five
\* names in any letter case, another string, nothing, or a JSON value that
\* is no string), the next tick of the room completes and steers the
\* player's leader with the velocity the value stands for.  Refuted: a
\* value that is no string makes directionToVector throw inside the tick.
MoveObeyed ==
  last'.op = "tick" =>
    \A k \in 1..Len(rooms) :
      Stepped(rooms[k], now') =>
        \A p \in 1..Len(rooms[k].players) :
          /\ ~crashed'
          /\ updateLeaderMovement(rooms[k].players[p]).leader.vx
               = Heading(rooms[k].players[p].pendingDirection).x
          /\ updateLeaderMovement(rooms[k].players[p]).leader.vy
               = Heading(rooms[k].players[p].pendingDirection).y

C18_EveryDirectionObeyed == [][MoveObeyed]_vars

\* A move of a player of the sender's recorded room replaces the pending
\* direction by the one it carries, and moves and turns no entity.
MoveReplaces ==
  ( /\ last'.op = "move"
    /\ HasRoom(rooms, info[last'.conn].roomId)
    /\ HasPlayer(GetRoom(rooms, info[last'.conn].roomId), last'.conn) ) =>
    LET before == GetRoom(rooms, info[last'.conn].roomId)
        k == IndexOfPlayer(before.players, last'.conn, 1)
    IN /\ HasRoom(rooms', before.id)
       /\ GetRoom(rooms', before.id).players =
            [ before.players EXCEPT
                ![k].pendingDirection =
                   IF last'.arg = Absent THEN "none" ELSE last'.arg ]

\* A coordinate after bounceOffWalls.
Walled(x, lo, hi) == IF x < lo THEN lo ELSE IF x > hi THEN hi ELSE x

\* No leader of `after` met the other leader or ate in the tick from
\* `before`.
Undisturbed(before, after) ==
  /\ \A p \in 1..Len(before.players) :
       Len(after.players[p].underlings) = Len(before.players[p].underlings)
  /\ \A p \in 1..Len(after.players), q \in 1..Len(after.players) :
       p # q => ~Overlap(after.players[p].leader, after.players[q].leader,
                         2 * (LeaderRadius + LeaderPush) * Scale)

\* A tick moves each leader of an active room by the pending direction the
\* tick finds, which is the one of the last move received.
TickFollowsPending ==
  last'.op = "tick" =>
    \A k \in 1..Len(rooms) :
      ( /\ rooms[k].isActive
        /\ HasRoom(rooms', rooms[k].id)
        /\ Undisturbed(rooms[k], GetRoom(rooms', rooms[k].id)) ) =>
        \A p \in 1..Len(rooms[k].players) :
          LET leader == rooms[k].players[p].leader
              after == GetRoom(rooms', rooms[k].id).players[p].leader
              heading == Heading(rooms[k].players[p].pendingDirection)
          IN /\ after.x = Walled(leader.x + Div(heading.x * last'.arg, 1000),
                                 LeaderRadius * Scale,
                                 (ArenaWidth - LeaderRadius) * Scale)
             /\ after.y = Walled(leader.y + Div(heading.y * last'.arg, 1000),
                                 LeaderRadius * Scale,
                                 (ArenaHeight - LeaderRadius) * Scale)

\* C19: of several move messages a player sends between two ticks, the later
\* tick uses only the direction of the last one: each move replaces the
\* pending direction and touches no entity, and the tick moves the leader
\* by the pending direction it finds.
C19_LastMoveCounts == [][MoveReplaces /\ TickFollowsPending]_vars

C19_Witness ==
  /\ last.op = "tick"
  /\ \E k \in 1..Len(rooms) : \E p \in 1..Len(rooms[k].players) :
       /\ rooms[k].isActive
       /\ rooms[k].players[p].pendingDirection = "right"
       /\ rooms[k].players[p].leader.y < SpawnY
       /\ rooms[k].players[p].leader.vx = LeaderSpeed * Scale
       /\ rooms[k].players[p].leader.vy = 0

\* The last handler answered its sender with one joinFailed carrying
\* `error` and changed no room and no connection record.
Refused(error) ==
  /\ ~crashed'
  /\ Len(out') = 1
  /\ out'[1].type = "joinFailed"
  /\ out'[1].to = << last'.conn >>
  /\ out'[1].data = error
  /\ rooms' = rooms
  /\ info' = info

\* C20: a joinGame that names a room id not in the registry is answered
\* with joinFailed/RoomNotFound, one that names a full room with
\* joinFailed/RoomFull, and neither changes a room, a player map or the
\* sender's recorded roomId.  Refuted for a roomId that is no string: the
\* handler throws at toUpperCase before it answers.
JoinRefused ==
  last'.op = "joinGame" =>
    /\ ( \/ last'.arg = NonString
         \/ ~HasRoom(rooms, JoinedRoomId(last'.arg)) ) =>
         Refused("RoomNotFound")
    /\ ( /\ last'.arg # NonString
         /\ HasRoom(rooms, JoinedRoomId(last'.arg))
         /\ Len(GetRoom(rooms, JoinedRoomId(last'.arg)).players) >= 2 ) =>
         Refused("RoomFull")

C20_JoinRefused == [][JoinRefused]_vars

\* The last handler changed no room, sent nothing and did not throw.
Ignored == rooms' = rooms /\ out' = << >> /\ ~crashed'

\* C21: a move, restartGame, requestState or leaveGame of a connection whose
\* recorded room id is null or names no room of the registry, and a move of
\* a connection that is no player of its recorded room, changes no room,
\* is answered by no message and raises no error.
StaleIgnored ==
  /\ ( /\ last'.op \in {"move", "restartGame", "requestState", "leaveGame"}
       /\ ~HasRoom(rooms, info[last'.conn].roomId) ) => Ignored
  /\ ( /\ last'.op = "move"
       /\ HasRoom(rooms, info[last'.conn].roomId)
       /\ ~HasPlayer(GetRoom(rooms, info[last'.conn].roomId), last'.conn) )
       => Ignored

C21_StaleIgnored == [][StaleIgnored]_vars

C21_Witness ==
  /\ last.op = "move"
  /\ HasRoom(rooms, info[last.conn].roomId)
  /\ ~HasPlayer(GetRoom(rooms, info[last.conn].roomId), last.conn)
  /\ out = << >>

\* C22: a leaveGame, restartGame, move or close of a connection changes only
\* a room that has the connection as a player: every other room keeps its
\* players, isActive, winnerId, winnerBroadcasted and lastActivity.
\* Refuted: the handlers act on the room info.roomId names without asking
\* whether the connection is (still) a player of it.
OnlyOwnRoom ==
  last'.op \in {"leaveGame", "restartGame", "move", "close"} =>
    \A k \in 1..Len(rooms) :
      ~HasPlayer(rooms[k], last'.conn) =>
        /\ HasRoom(rooms', rooms[k].id)
        /\ GetRoom(rooms', rooms[k].id).players = rooms[k].players
        /\ GetRoom(rooms', rooms[k].id).isActive = rooms[k].isActive
        /\ GetRoom(rooms', rooms[k].id).winnerId = rooms[k].winnerId
        /\ GetRoom(rooms', rooms[k].id).winnerBroadcasted
             = rooms[k].winnerBroadcasted
        /\ GetRoom(rooms', rooms[k].id).lastActivity = rooms[k].lastActivity

C22_OnlyOwnRoom == [][OnlyOwnRoom]_vars

\* C23: a tick leaves no room in the registry whose lastActivity lies more
\* than the timeout before the tick, and a room removed for that is not
\* stepped and is sent no snapshot and no gameOver in that tick.
ExpiredSwept ==
  last'.op = "tick" =>
    /\ \A k \in 1..Len(rooms') :
         now' - rooms'[k].lastActivity <= RoomTimeoutMs
    /\ \A k \in 1..Len(rooms) :
         now' - rooms[k].lastActivity > RoomTimeoutMs =>
           /\ ~HasRoom(rooms', rooms[k].id)
           /\ \A i \in 1..Len(out') : out'[i].roomId # rooms[k].id

C23_ExpiredSwept == [][ExpiredSwept]_vars

C23_Witness ==
  /\ last.op = "tick"
  /\ rooms = << >>
  /\ out = << >>
  /\ \E c \in Conns : info[c].roomId \in RoomIds /\ info[c].status = "open"

\* C24: every tick dispatches exactly one gameStateUpdated to each room that
\* is registered after the expiry check, be it waiting, active or finished.
\* Refuted: a room whose step throws gets no snapshot, and neither do the
\* rooms behind it in the registry.
OneSnapshotEach ==
  last'.op = "tick" =>
    \A k \in 1..Len(rooms) :
      now' - rooms[k].lastActivity <= RoomTimeoutMs =>
        Cardinality(Sent(out', "gameStateUpdated", rooms[k].id)) = 1

C24_OneSnapshotEach == [][OneSnapshotEach]_vars

\* C25: between handlers, a room with isActive true has exactly two players.
C25_ActiveHasTwo ==
  \A k \in 1..Len(rooms) : rooms[k].isActive => Len(rooms[k].players) = 2

C25_Witness ==
  /\ last.op \in {"leaveGame", "close"}
  /\ \E k \in 1..Len(rooms) :
       /\ rooms[k].id = last.arg
       /\ Len(rooms[k].players) = 1
       /\ rooms[k].winnerId # Null
       /\ ~rooms[k].isActive

\* C26: a room's winnerId goes from null to a connection id only in a step
\* that takes isActive from true to false (the room was active before the
\* step, or the tick that records the winner has started it), and a leave
\* or disconnect from a room that is not active leaves winnerId as it is.
WinnerOnlyFromActive ==
  \A k \in 1..Len(rooms) :
    HasRoom(rooms', rooms[k].id) =>
      /\ ( /\ rooms[k].winnerId = Null
           /\ GetRoom(rooms', rooms[k].id).winnerId # Null ) =>
           /\ ~GetRoom(rooms', rooms[k].id).isActive
           /\ \/ rooms[k].isActive
              \/ last'.op = "tick" /\ shouldStart(rooms[k])
      /\ ( /\ last'.op \in {"leaveGame", "close"}
           /\ ~rooms[k].isActive ) =>
           GetRoom(rooms', rooms[k].id).winnerId = rooms[k].winnerId

C26_WinnerOnlyFromActive == [][WinnerOnlyFromActive]_vars

C26_Witness ==
  /\ last.op = "leaveGame"
  /\ now = 0
  /\ \E k \in 1..Len(rooms) :
       /\ rooms[k].id = last.arg
       /\ Len(rooms[k].players) = 1
       /\ rooms[k].winnerId = Null

\* A player as initializePlayerEntities leaves it when the ids it draws are
\* those from `first` on: 3 to 5 underlings, none of them older, each within
\* the spawn spread of the leader on both axes, and the leader at rest at a
\* quarter or three quarters of the width and half the height.
Spawned(player, first) ==
  /\ Len(player.underlings) >= MinUnderlings
  /\ Len(player.underlings) <= MaxUnderlings
  /\ \A i \in 1..Len(player.underlings) :
       /\ player.underlings[i].id >= first
       /\ Abs(player.underlings[i].x - player.leader.x) <= SpawnSpread * Scale
       /\ Abs(player.underlings[i].y - player.leader.y) <= SpawnSpread * Scale
  /\ player.leader.x * 4 \in {ArenaWidth * Scale, 3 * ArenaWidth * Scale}
  /\ player.leader.y * 2 = ArenaHeight * Scale
  /\ player.leader.vx = 0
  /\ player.leader.vy = 0

\* The room the last handler's sender is recorded in after it.
SenderRoom == GetRoom(rooms', info'[last'.conn].roomId)

\* A createGame whose createPlayer returns and an accepted joinGame spawn
\* the sender, an accepted restartGame every player of the room, and the
\* tick's auto-start every player of a waiting pair, whatever the draws.
SpawnsFresh ==
  /\ ( \/ last'.op = "createGame" /\ ~crashed'
       \/ last'.op = "joinGame" /\ rooms' # rooms ) =>
       Spawned(SenderRoom.players[
                 IndexOfPlayer(SenderRoom.players, last'.conn, 1)],
               EntityId(uuid, 0))
  /\ (last'.op = "restartGame" /\ rooms' # rooms) =>
       \A p \in 1..Len(SenderRoom.players) :
         Spawned(SenderRoom.players[p], EntityId(uuid, 0))
  /\ last'.op = "tick" =>
       \A k \in 1..Len(rooms) :
         shouldStart(rooms[k]) =>
           \A plans \in MatchPlans \X MatchPlans :
             \A p \in 1..Len(rooms[k].players) :
               Spawned(resetRoom(rooms[k], plans, uuid, now').players[p],
                       EntityId(uuid, 0))

\* C27: every call of initializePlayerEntities, at create, join, auto-start
\* and restart, discards the player's previous underlings and leaves 3 to 5
\* underlings, each within 60 units of the leader on both axes, and the
\* leader at 25% or 75% of the arena width and 50% of its height with zero
\* velocity.
C27_SpawnsFresh == [][SpawnsFresh]_vars

C27_Witness ==
  /\ last.op = "restartGame"
  /\ now > MaxDeltaMs
  /\ uuid = MaxUuid
  /\ \E k \in 1..Len(rooms) :
       /\ rooms[k].id = last.arg
       /\ \A p \in 1..Len(rooms[k].players) :
            Spawned(rooms[k].players[p], EntityId(uuid - 2, 0))

\* The view shows the room: its id, isActive and winnerId, and per player
\* the leader and the underlings the player has, by id and place.
Shows(view, room) ==
  /\ view.roomId = room.id
  /\ view.isActive = room.isActive
  /\ view.winnerId = room.winnerId
  /\ Len(view.players) = Len(room.players)
  /\ \A p \in 1..Len(room.players) :
       /\ view.players[p].connectionId = room.players[p].connectionId
       /\ view.players[p].leader.id = room.players[p].leader.id
       /\ view.players[p].leader.x = room.players[p].leader.x
       /\ view.players[p].leader.y = room.players[p].leader.y
       /\ Ids(view.players[p].underlings) = Ids(room.players[p].underlings)
       /\ \A i \in 1..Len(room.players[p].underlings) :
            /\ view.players[p].underlings[i].x = room.players[p].underlings[i].x
            /\ view.players[p].underlings[i].y = room.players[p].underlings[i].y

\* C28: buildStateSnapshot leaves the room, its players and their entities
\* as they are, and its view carries the room's id, isActive and winnerId
\* and, per player, exactly the ids of the player's leader and underlings:
\* a requestState changes no room, and every snapshot a handler sends shows
\* the room as the handler leaves it.
SnapshotShowsRoom ==
  /\ last'.op = "requestState" => rooms' = rooms
  /\ \A i \in 1..Len(out') :
       out'[i].type = "gameStateUpdated" =>
         /\ HasRoom(rooms', out'[i].roomId)
         /\ Shows(out'[i].data, GetRoom(rooms', out'[i].roomId))

C28_SnapshotShowsRoom == [][SnapshotShowsRoom]_vars

C28_Witness ==
  /\ last.op = "requestState"
  /\ Len(out) = 1
  /\ out[1].type = "gameStateUpdated"
  /\ out[1].data.winnerId # Null
  /\ Len(out[1].data.players) = 1

\* The connections whose CreateRoom or TryJoinRoom call let them into the
\* room.
Admitted ==
  { c \in CsConns : calls[c].result \in {"Created", "Joined"} }

\* C29: however the concurrent TryJoinRoom calls on a room interleave, the
\* room never holds more than 2 players, and no more than two connections
\* are let in: every call after them gets RoomFull.
C29_AtMostTwoPlayers ==
  /\ Count(gameRoom) <= 2
  /\ Cardinality(Admitted) <= 2

\* What the input handlers write of a room: its player set, the
\* PendingDirection of its players and its LastActivityUtc.
Inputs(room) ==
  << DOMAIN room.players,
     [k \in DOMAIN room.players |-> room.players[k].PendingDirection],
     room.LastActivityUtc >>

\* A step of a thread other than the one of TickAsync.
HandlerStep ==
  /\ calls' # calls
  /\ calls'[TickThread] = calls[TickThread]

\* C30: while TickAsync holds the lock of the room, no step of
\* TryRegisterMove, TryJoinRoom or HandleDisconnect changes the player set
\* of the room, the PendingDirection of a player or its LastActivityUtc.
LockKeepsInputsOut ==
  syncRoot = TickThread /\ HandlerStep => Inputs(gameRoom') = Inputs(gameRoom)
C30_LockKeepsInputsOut == [][LockKeepsInputsOut]_vars

\* A step of TickAsync.
TickStep == calls'[TickThread] # calls[TickThread]

\* The room is finished with both players in it, and no TryRestartMatch call
\* has passed its lookup.
FinishedPair ==
  /\ gameRoom.WinnerId # Null
  /\ ~gameRoom.IsActive
  /\ Count(gameRoom) = 2
  /\ \A c \in CsConns : At(c, "idle")

\* C31: once a match has stopped with a winner and both players stay, a
\* step of TickAsync leaves IsActive false and WinnerId as it is and does not
\* reach UpdateRoom, as long as TryRestartMatch is not called.
TickLeavesFinished ==
  FinishedPair /\ TickStep =>
    /\ ~gameRoom'.IsActive
    /\ gameRoom'.WinnerId = gameRoom.WinnerId
    /\ ~calls'[TickThread].pc = "tick.update"
C31_TickLeavesFinished == [][TickLeavesFinished]_vars

\* Stop has recorded a winner that TickAsync has not marked as broadcast.
Unannounced(room) == room.WinnerId # Null /\ ~room.WinnerBroadcasted

\* C32: a winner that Stop has recorded gets its one GameOver from
\* TickAsync whatever joins, disconnects and restarts come between: until
\* TickAsync has marked it as broadcast, no step takes the winner away.
WinnerKept ==
  Unannounced(gameRoom) => gameRoom'.WinnerId = gameRoom.WinnerId
C32_WinnerAnnounced == [][WinnerKept]_vars

\* No room has expired: the clock has made none of its advances, so
\* IsExpired has been false at every read, TickAsync has removed no room, and
\* the only call that has taken a room out of the registry is
\* HandleDisconnect.
NothingExpired == utcNow \div ElapseMinutes = 0

\* C40: when HandleDisconnect for the last player of a room runs alongside
\* TryJoinRoom, a connection whose join returned success is the player of a
\* room that the registry still holds. Rooms that TickAsync removes as
\* expired are left aside: as long as no room has expired, a room that is
\* not in the registry was removed by HandleDisconnect.
C40_JoinedRoomRegistered ==
  NothingExpired =>
    \A c \in CsConns :
      calls[c].result = "Joined" /\ c \in DOMAIN gameRoom.players => registered

\* Player w of the room is its recorded winner, every other player has no
\* underling, and w is the first in join order when nobody has one.
WinnerIs(room, w) ==
  /\ room.winnerId = room.players[w].connectionId
  /\ \A j \in 1..Len(room.players) :
       j # w => Len(room.players[j].underlings) = 0
  /\ (\A j \in 1..Len(room.players) :
        Len(room.players[j].underlings) = 0) => w = 1

\* C33: a tick that records a winner in a room records one player of the
\* room whose opponent has no underlings, and the player earlier in the join
\* order when both players have none.
TickRecordsWinner ==
  last'.op = "tick" =>
    \A k \in 1..Len(rooms) :
      ( /\ rooms[k].winnerId = Null
        /\ HasRoom(rooms', rooms[k].id)
        /\ GetRoom(rooms', rooms[k].id).winnerId # Null ) =>
        LET after == GetRoom(rooms', rooms[k].id)
        IN /\ Len(after.players) = 2
           /\ Cardinality({ w \in 1..2 : WinnerIs(after, w) }) = 1
C33_OneWinner == [][TickRecordsWinner]_vars

C33_Witness ==
  /\ last.op = "tick"
  /\ \E k \in 1..Len(rooms) :
       /\ Len(rooms[k].players) = 2
       /\ Len(rooms[k].players[1].underlings) = 0
       /\ Len(rooms[k].players[2].underlings) = 0
       /\ rooms[k].winnerId = rooms[k].players[1].connectionId

\* C34: a tick leaves a room that is not active and that it does not start
\* as it is: every entity, every underling list, isActive, winnerId,
\* winnerBroadcasted and lastActivity.
IdleRoomKept ==
  last'.op = "tick" =>
    \A k \in 1..Len(rooms) :
      ( /\ ~rooms[k].isActive
        /\ ~shouldStart(rooms[k])
        /\ HasRoom(rooms', rooms[k].id) ) =>
        GetRoom(rooms', rooms[k].id) = rooms[k]
C34_IdleRoomKept == [][IdleRoomKept]_vars

C34_Witness ==
  /\ last.op = "tick"
  /\ \E k \in 1..Len(rooms) :
       /\ ~rooms[k].isActive
       /\ rooms[k].winnerId # Null
       /\ Len(rooms[k].players) = 2
       /\ rooms[k].lastActivity < now
       /\ Sent(out, "gameStateUpdated", rooms[k].id) # {}
       /\ Sent(out, "gameOver", rooms[k].id) = {}

\* Message i of msgs is a gameOver, and an earlier message of msgs is a
\* snapshot of the same room to the same sockets that shows the room inactive
\* with the winner the gameOver names.
SnapshotFirst(msgs, i) ==
  \E j \in 1..(i - 1) :
    /\ msgs[j].type = "gameStateUpdated"
    /\ msgs[j].roomId = msgs[i].roomId
    /\ msgs[j].to = msgs[i].to
    /\ ~msgs[j].data.isActive
    /\ msgs[j].data.winnerId = msgs[i].data

\* C35: in the tick that detects a win, the gameOver to a room comes after
\* a gameStateUpdated to that room that shows isActive false and the same
\* winnerId.
GameOverAfterSnapshot ==
  last'.op = "tick" =>
    \A i \in 1..Len(out') :
      out'[i].type = "gameOver" => SnapshotFirst(out', i)
C35_GameOverAfterSnapshot == [][GameOverAfterSnapshot]_vars

C35_Witness ==
  /\ last.op = "tick"
  /\ \E i \in 1..Len(out) :
       /\ out[i].type = "gameOver"
       /\ out[i].to # << >>
       /\ SnapshotFirst(out, i)

\* C36: a room with two players has one blue and one red player, whatever
\* creates, joins, leaves and re-joins came before.
C36_BlueAndRed ==
  \A k \in 1..Len(rooms) :
    Len(rooms[k].players) = 2 =>
      { rooms[k].players[p].teamColor : p \in 1..2 } = {"blue", "red"}

\* The rooms whose player map has connection c as a key.
RoomsOf(c) ==
  { rooms[k].id : k \in { j \in 1..Len(rooms) : HasPlayer(rooms[j], c) } }

\* C37: a connection is a player of at most one room, and that room is the
\* one connectionInfo records as its roomId, also after it has sent
\* createGame or joinGame while it was in a room.
C37_OneRoomPerConnection ==
  \A c \in Conns :
    /\ Cardinality(RoomsOf(c)) <= 1
    /\ \A roomId \in RoomsOf(c) : info[c].roomId = roomId

\* C38: a winnerId that a room records is the connectionId of one of its
\* players, also after the winner has left the finished room and somebody
\* has joined it.
C38_WinnerInRoom ==
  \A k \in 1..Len(rooms) :
    rooms[k].winnerId # Null => HasPlayer(rooms[k], rooms[k].winnerId)

\* C39: between ticks an active room has two players with at least one
\* underling each: the tick in which a swarm is eaten up ends the match.
C39_ActiveSwarmsAlive ==
  \A k \in 1..Len(rooms) :
    rooms[k].isActive =>
      /\ Len(rooms[k].players) = 2
      /\ \A p \in 1..Len(rooms[k].players) :
           Len(rooms[k].players[p].underlings) >= 1

C39_Witness ==
  /\ last.op = "tick"
  /\ \E k \in 1..Len(rooms) :
       /\ Len(rooms[k].players) = 2
       /\ ~rooms[k].isActive
       /\ Len(rooms[k].players[1].underlings) >= 1
       /\ Len(rooms[k].players[2].underlings) = 0
====
